---- MODULE Spec2Model ----
(***************************************************************************)
(* DuinoCollections: fixed-capacity, array-backed collections.             *)
(*                                                                         *)
(* The model covers the policy-driven engine LinearCollection with its     *)
(* indexing policies (Sequential, Ordered) and duplication policies        *)
(* (Allow, Forbid), the facades built on it (FixedVector, FixedSet,        *)
(* FixedOrderedVector, FixedOrderedSet, FixedMap) and FixedRingBuffer.     *)
(* One behaviour follows one instance: Init picks the facade, its          *)
(* comparator or mode, the requested capacity and the outcome of the one   *)
(* allocation; every action is one call of a public operation.             *)
(***************************************************************************)
EXTENDS Integers, Sequences, FiniteSets, TLC

(***************************************************************************)
(* Bounds of the model.                                                    *)
(***************************************************************************)
\* largest capacity requested at construction
MaxCapacity == 3
\* element values (and map keys) are 1..MaxItem
MaxItem == 2
\* map values are 1..MaxMapValue
MaxMapValue == 2
\* ring buffer: successful pushes recorded since construction or clear()
MaxPushes == 4
\* main context with interrupt handler: largest capacity requested
MaxIsrCapacity == 2
\* main context with interrupt handler: successful ring buffer pushes recorded
MaxIsrPushes == 3
\* move construction: largest capacity requested
MaxMoveCapacity == 2

Items == 1..MaxItem
MapValues == 1..MaxMapValue

LinearFacades == {"FixedVector", "FixedSet", "FixedOrderedVector",
                  "FixedOrderedSet", "FixedMap"}
OrderedFacades == {"FixedOrderedVector", "FixedOrderedSet", "FixedMap"}
ForbidFacades == {"FixedSet", "FixedOrderedSet", "FixedMap"}
Facades == LinearFacades \cup {"FixedRingBuffer"}
\* the classes that expose push_atomic and pop_atomic
AtomicFacades == {"FixedVector", "FixedRingBuffer"}

VARIABLES
    facade,     \* which class the instance is
    sorting,    \* SortingOrder template argument: "Ascending" or "Descending"
    mode,       \* RingBufferMode template argument: "REJECT" or "OVERWRITE"
    valid,      \* _data != nullptr
    data,       \* _data: the backing array, indexes 0..capacity-1
    capacity,   \* _capacity
    size,       \* _size
    head,       \* FixedRingBuffer::_head
    tail,       \* FixedRingBuffer::_tail
    out,        \* the caller's output slot (out_value / out_item / out_val)
    last,       \* the last call: operation, arguments and returned status
    pushed,     \* ring buffer: values of the successful pushes, in order
    popped,     \* ring buffer: values returned by the successful pops, in order
    arch,       \* platform of ScopedInterruptLock::interruptsEnabled
    irq,        \* hardware interrupt-enable flag
    pc,         \* main context: its position inside an atomic call or lock scope
    lock,       \* main context: the live ScopedInterruptLock objects, outermost first
    cur,        \* main context: the atomic call in progress
    pending,    \* main context: what the body of the call read and computed
    moved       \* the instance move-constructed from this one, if any

vars == <<facade, sorting, mode, valid, data, capacity, size, head, tail,
          out, last, pushed, popped, arch, irq, pc, lock, cur, pending, moved>>

config == <<facade, sorting, mode, arch>>

\* the main context's progress through an atomic call
context == <<pc, lock, cur, pending>>

(***************************************************************************)
(* Element type T.  FixedMap stores KeyValue<K, V>; the others store a     *)
(* plain integral value.                                                   *)
(***************************************************************************)
KeyValue(a_key, a_value) == [key |-> a_key, value |-> a_value]

\* T{ }: a default-initialised element (V{ } and K{ } are 0)
DefaultT(f) == IF f = "FixedMap" THEN KeyValue(0, 0) ELSE 0

\* the values a caller passes as item
ItemsOf(f) ==
    IF f = "FixedMap" THEN {KeyValue(k, v) : k \in Items, v \in MapValues}
    ELSE Items

\* equality that compares the whole KeyValue, value included
Equals_memberwise(a, b) == a = b

\* operator == of T
Equals(a, b) == IF facade = "FixedMap" THEN a.key = b.key ELSE a = b

\* operator > of T
Greater(a, b) == IF facade = "FixedMap" THEN a.key > b.key ELSE a > b

\* operator >= of KeyValue: a > b || a == b
GreaterEq(a, b) == Greater(a, b) \/ Equals(a, b)

\* operator < of T; for KeyValue it is !(a >= b)
Less(a, b) == IF facade = "FixedMap" THEN ~GreaterEq(a, b) ELSE a < b

Ascending(a, b) == Less(a, b)

Descending(a, b) == Greater(a, b)

\* OrderedIndexingPolicy::order, an instance of SortOrder
order(a, b) == IF sorting = "Ascending" THEN Ascending(a, b) ELSE Descending(a, b)

\* the live range data[0..size-1] as a sequence
Live(d, n) == [i \in 1..n |-> d[i - 1]]

\* size_t arithmetic is unsigned: results are taken modulo 2^SizeBits
SizeBits == 16

SizeT(x) == x % (2 ^ SizeBits)

(***************************************************************************)
(* BaseShiftIndexingPolicy                                                 *)
(***************************************************************************)
\* the right-shift loop of insert: current_index runs from size down to
\* target_index + 1
RECURSIVE insert_shift(_, _, _)
insert_shift(d, current_index, target_index) ==
    IF current_index > target_index
    THEN insert_shift([d EXCEPT ![current_index] = d[current_index - 1]],
                      current_index - 1, target_index)
    ELSE d

\* insert that stores the item without moving the later elements
insert_without_shift(d, n, target_index, item) ==
    [d EXCEPT ![target_index] = item]

insert(d, n, target_index, item) ==
    [insert_shift(d, n, target_index) EXCEPT ![target_index] = item]

\* the left-shift loop of remove: current_index runs from target_index up to
\* size - 2
RECURSIVE remove_shift(_, _, _)
remove_shift(d, current_index, bound) ==
    IF current_index < bound
    THEN remove_shift([d EXCEPT ![current_index] = d[current_index + 1]],
                      current_index + 1, bound)
    ELSE d

\* remove that fills the hole with the last live element instead of shifting
remove_swap_with_last(d, n, target_index) ==
    [d EXCEPT ![target_index] = d[SizeT(n - 1)]]

remove(d, n, target_index) == remove_shift(d, target_index, SizeT(n - 1))

\* get_pop_index that designates the first element
get_pop_index_front(d, n) == 0

get_pop_index(d, n) == SizeT(n - 1)

(***************************************************************************)
(* SequentialIndexingPolicy                                                *)
(***************************************************************************)
Sequential_get_push_index(d, n, item) == n

RECURSIVE Sequential_find_loop(_, _, _, _)
Sequential_find_loop(d, n, item, i) ==
    IF i < n
    THEN IF Equals(d[i], item) THEN i
         ELSE Sequential_find_loop(d, n, item, i + 1)
    ELSE n

\* find_index that reports the last matching cell instead of the first
Sequential_find_index_last_match(d, n, item) ==
    LET matches == {i \in 0..(n - 1) : Equals(d[i], item)}
    IN  IF matches = {} THEN n
        ELSE CHOOSE i \in matches : \A j \in matches : j <= i

Sequential_find_index(d, n, item) == Sequential_find_loop(d, n, item, 0)

\* the compaction loop of remove_all; yields the array and the write cursor
RECURSIVE Sequential_compact(_, _, _, _, _)
Sequential_compact(d, n, item, read, write) ==
    IF read < n
    THEN IF ~Equals(d[read], item)
         THEN Sequential_compact([d EXCEPT ![write] = d[read]], n, item,
                                 read + 1, write + 1)
         ELSE Sequential_compact(d, n, item, read + 1, write)
    ELSE [data |-> d, write |-> write]

\* remove_all that removes the first match only
Sequential_remove_all_first_match(d, n, item) ==
    LET index == Sequential_find_loop(d, n, item, 0)
    IN  IF index = n THEN [data |-> d, count |-> 0]
        ELSE [data |-> remove_shift(d, index, SizeT(n - 1)), count |-> 1]

Sequential_remove_all(d, n, item) ==
    LET r == Sequential_compact(d, n, item, 0, 0)
    IN  [data |-> r.data, count |-> SizeT(n - r.write)]

(***************************************************************************)
(* OrderedIndexingPolicy                                                   *)
(***************************************************************************)
\* the lower-bound binary search of get_push_index
RECURSIVE lower_bound_search(_, _, _, _)
lower_bound_search(d, item, left, right) ==
    IF left < right
    THEN LET middle == left + ((right - left) \div 2)
         IN  IF order(d[middle], item)
             THEN lower_bound_search(d, item, middle + 1, right)
             ELSE lower_bound_search(d, item, left, middle)
    ELSE left

\* get_push_index that appends instead of searching
Ordered_get_push_index_appending(d, n, item) == n

\* get_push_index that yields the upper bound: the position after the
\* elements equal to item
Ordered_get_push_index_after_equals(d, n, item) ==
    Cardinality({j \in 0..(n - 1) : ~order(item, d[j])})

Ordered_get_push_index(d, n, item) == lower_bound_search(d, item, 0, n)

Ordered_find_index(d, n, item) ==
    LET index == Ordered_get_push_index(d, n, item)
    IN  IF index < n /\ Equals(d[index], item) THEN index ELSE n

\* the upper-bound binary search of remove_all
RECURSIVE upper_bound_search(_, _, _, _)
upper_bound_search(d, item, left, right) ==
    IF left < right
    THEN LET middle == left + ((right - left) \div 2)
         IN  IF ~order(item, d[middle])
             THEN upper_bound_search(d, item, middle + 1, right)
             ELSE upper_bound_search(d, item, left, middle)
    ELSE left

\* The closing loop of remove_all is written
\*     data[current_index - count = data[current_index]];
\* which only indexes the array: no cell is stored, so the array is returned
\* as it was and only the count is reported.
Ordered_remove_all(d, n, item) ==
    LET lower_bound == Ordered_find_index(d, n, item)
    IN  IF lower_bound = n \/ ~Equals(item, d[lower_bound])
        THEN [data |-> d, count |-> 0]
        ELSE LET left == upper_bound_search(d, item, lower_bound, n)
             IN  [data |-> d, count |-> SizeT(left - lower_bound)]

\* find_insert_position that never reports the item as found
Ordered_find_insert_position_never_found(d, n, item) ==
    [index |-> Ordered_get_push_index(d, n, item), found |-> FALSE]

Ordered_find_insert_position(d, n, item) ==
    LET index == Ordered_get_push_index(d, n, item)
    IN  [index |-> index, found |-> (index # n /\ Equals(item, d[index]))]

(***************************************************************************)
(* The loops of the policies, iteration by iteration.  Each operator runs  *)
(* a loop as the operators above do and also yields, for every iteration,  *)
(* the loop variables and the indexes of the cells the body reads and      *)
(* writes.                                                                 *)
(***************************************************************************)
\* one iteration: the loop variables at its start, the cells it touches
Iteration(left, right, reads, writes) ==
    [left |-> left, right |-> right, reads |-> reads, writes |-> writes]

\* insert whose loop starts one cell further right
insert_trace_extra_iteration(current_index, target_index, trace) ==
    trace \o [k \in 1..(current_index - target_index + 2) |->
                 Iteration(target_index, current_index + 2 - k,
                           {current_index + 1 - k}, {current_index + 2 - k})]

\* the loop of BaseShiftIndexingPolicy::insert and the store after it
RECURSIVE insert_trace(_, _, _)
insert_trace(current_index, target_index, trace) ==
    IF current_index > target_index
    THEN insert_trace(current_index - 1, target_index,
                      Append(trace, Iteration(target_index, current_index,
                                              {current_index - 1},
                                              {current_index})))
    ELSE Append(trace, Iteration(target_index, current_index, {},
                                 {target_index}))

\* the loop of BaseShiftIndexingPolicy::remove; bound is size - 1
RECURSIVE remove_trace(_, _, _)
remove_trace(current_index, bound, trace) ==
    IF current_index < bound
    THEN remove_trace(current_index + 1, bound,
                      Append(trace, Iteration(current_index, bound,
                                              {current_index + 1},
                                              {current_index})))
    ELSE trace

\* the loop of SequentialIndexingPolicy::find_index
RECURSIVE Sequential_find_trace(_, _, _, _, _)
Sequential_find_trace(d, n, item, i, trace) ==
    IF i < n
    THEN IF Equals(d[i], item)
         THEN Append(trace, Iteration(i, n, {i}, {}))
         ELSE Sequential_find_trace(d, n, item, i + 1,
                                    Append(trace, Iteration(i, n, {i}, {})))
    ELSE trace

\* the loop of SequentialIndexingPolicy::remove_all
RECURSIVE Sequential_compact_trace(_, _, _, _, _, _)
Sequential_compact_trace(d, n, item, read, write, trace) ==
    IF read < n
    THEN IF ~Equals(d[read], item)
         THEN Sequential_compact_trace(
                  [d EXCEPT ![write] = d[read]], n, item, read + 1, write + 1,
                  Append(trace, Iteration(read, n, {read}, {write})))
         ELSE Sequential_compact_trace(
                  d, n, item, read + 1, write,
                  Append(trace, Iteration(read, n, {read}, {})))
    ELSE trace

\* the loop of OrderedIndexingPolicy::get_push_index
RECURSIVE lower_bound_trace(_, _, _, _, _)
lower_bound_trace(d, item, left, right, trace) ==
    IF left < right
    THEN LET middle == left + ((right - left) \div 2)
             step == Append(trace, Iteration(left, right, {middle}, {}))
         IN  IF order(d[middle], item)
             THEN lower_bound_trace(d, item, middle + 1, right, step)
             ELSE lower_bound_trace(d, item, left, middle, step)
    ELSE Append(trace, Iteration(left, right, {}, {}))

\* the upper-bound loop of OrderedIndexingPolicy::remove_all
RECURSIVE upper_bound_trace(_, _, _, _, _)
upper_bound_trace(d, item, left, right, trace) ==
    IF left < right
    THEN LET middle == left + ((right - left) \div 2)
             step == Append(trace, Iteration(left, right, {middle}, {}))
         IN  IF ~order(item, d[middle])
             THEN upper_bound_trace(d, item, middle + 1, right, step)
             ELSE upper_bound_trace(d, item, left, middle, step)
    ELSE Append(trace, Iteration(left, right, {}, {}))

\* the closing loop of OrderedIndexingPolicy::remove_all, which evaluates
\* data[current_index] and stores nothing
RECURSIVE Ordered_close_gap_trace(_, _, _)
Ordered_close_gap_trace(current_index, n, trace) ==
    IF current_index < n
    THEN Ordered_close_gap_trace(current_index + 1, n,
             Append(trace, Iteration(current_index, n, {current_index}, {})))
    ELSE trace

(***************************************************************************)
(* Duplication policies                                                    *)
(***************************************************************************)
AllowDuplication_allows(d, n, item) == TRUE

\* ForbidDuplicationPolicy::allows: a presence check over the live range
ForbidDuplication_allows(d, n, item) ==
    \A i \in 0..(n - 1) : ~Equals(d[i], item)

(***************************************************************************)
(* Template arguments of the facades                                       *)
(***************************************************************************)
IS_ORDERED == facade \in OrderedFacades

ALLOWS_DUPLICATES == facade \notin ForbidFacades

get_push_index(d, n, item) ==
    IF IS_ORDERED THEN Ordered_get_push_index(d, n, item)
    ELSE Sequential_get_push_index(d, n, item)

find_index(d, n, item) ==
    IF IS_ORDERED THEN Ordered_find_index(d, n, item)
    ELSE Sequential_find_index(d, n, item)

policy_remove_all(d, n, item) ==
    IF IS_ORDERED THEN Ordered_remove_all(d, n, item)
    ELSE Sequential_remove_all(d, n, item)

allows(d, n, item) ==
    IF ALLOWS_DUPLICATES THEN AllowDuplication_allows(d, n, item)
    ELSE ForbidDuplication_allows(d, n, item)

(***************************************************************************)
(* LinearCollection: the engine.  Each operation maps the array d, the     *)
(* size n (and the caller's output slot o) to the array, size, returned    *)
(* status and output slot after the call.                                  *)
(***************************************************************************)
is_valid == valid

\* is_full with the comparison off by one
is_full_off_by_one(n) == n > capacity

is_full(n) == n >= capacity

is_empty(n) == n = 0

Outcome(d, n, ret, o) == [data |-> d, size |-> n, ret |-> ret, out |-> o]

\* push that does not test is_full
push_unchecked_full(d, n, o, item) ==
    IF ~is_valid
    THEN Outcome(d, n, FALSE, o)
    ELSE LET index == get_push_index(d, n, item)
         IN  IF ~allows(d, n, item)
             THEN Outcome(d, n, FALSE, o)
             ELSE Outcome(insert(d, n, index, item), SizeT(n + 1), TRUE, o)

push(d, n, o, item) ==
    IF ~is_valid \/ is_full(n)
    THEN Outcome(d, n, FALSE, o)
    ELSE LET res == Ordered_find_insert_position(d, n, item)
             fast == IS_ORDERED /\ ~ALLOWS_DUPLICATES
             index == IF fast THEN res.index ELSE get_push_index(d, n, item)
             can_add == IF fast THEN ~res.found ELSE allows(d, n, item)
         IN  IF ~can_add
             THEN Outcome(d, n, FALSE, o)
             ELSE Outcome(insert(d, n, index, item), SizeT(n + 1), TRUE, o)

\* pop that decrements _size before it looks at is_empty
pop_decrement_when_empty(d, n, o) ==
    IF ~is_valid
    THEN Outcome(d, n, FALSE, o)
    ELSE IF is_empty(n)
         THEN Outcome(d, SizeT(n - 1), FALSE, o)
         ELSE LET index == get_pop_index(d, n)
              IN  Outcome(remove(d, n, index), SizeT(n - 1), TRUE, d[index])

pop(d, n, o) ==
    IF ~is_valid \/ is_empty(n)
    THEN Outcome(d, n, FALSE, o)
    ELSE LET index == get_pop_index(d, n)
         IN  Outcome(remove(d, n, index), SizeT(n - 1), TRUE, d[index])

\* insert_at that does not consult the duplication policy
insert_at_unchecked_duplicates(d, n, o, item, index) ==
    IF ~is_valid \/ is_full(n) \/ index > n
    THEN Outcome(d, n, FALSE, o)
    ELSE Outcome(insert(d, n, index, item), SizeT(n + 1), TRUE, o)

\* insert_at that refuses index == size
insert_at_strict_index(d, n, o, item, index) ==
    IF ~is_valid \/ is_full(n) \/ ~allows(d, n, item) \/ index >= n
    THEN Outcome(d, n, FALSE, o)
    ELSE Outcome(insert(d, n, index, item), SizeT(n + 1), TRUE, o)

insert_at(d, n, o, item, index) ==
    IF ~is_valid \/ is_full(n) \/ ~allows(d, n, item) \/ index > n
    THEN Outcome(d, n, FALSE, o)
    ELSE Outcome(insert(d, n, index, item), SizeT(n + 1), TRUE, o)

\* remove_at that decrements _size without shifting the later elements
remove_at_without_shift(d, n, o, index) ==
    IF ~is_valid \/ is_empty(n) \/ index >= n
    THEN Outcome(d, n, FALSE, o)
    ELSE Outcome(d, SizeT(n - 1), TRUE, d[index])

remove_at(d, n, o, index) ==
    IF ~is_valid \/ is_empty(n) \/ index >= n
    THEN Outcome(d, n, FALSE, o)
    ELSE Outcome(remove(d, n, index), SizeT(n - 1), TRUE, d[index])

\* remove_first that decrements _size before it looks at the search result
remove_first_decrement_first(d, n, o, item) ==
    IF ~is_valid \/ is_empty(n)
    THEN Outcome(d, n, FALSE, o)
    ELSE LET index == find_index(d, n, item)
         IN  IF index = n
             THEN Outcome(d, SizeT(n - 1), FALSE, o)
             ELSE Outcome(remove(d, n, index), SizeT(n - 1), TRUE, o)

remove_first(d, n, o, item) ==
    IF ~is_valid \/ is_empty(n)
    THEN Outcome(d, n, FALSE, o)
    ELSE LET index == find_index(d, n, item)
         IN  IF index = n
             THEN Outcome(d, n, FALSE, o)
             ELSE Outcome(remove(d, n, index), SizeT(n - 1), TRUE, o)

remove_all(d, n, o, item) ==
    IF ~is_valid \/ is_empty(n)
    THEN Outcome(d, n, FALSE, o)
    ELSE LET r == policy_remove_all(d, n, item)
         IN  Outcome(r.data, SizeT(n - r.count), r.count > 0, o)

find(d, n, item) == find_index(d, n, item)

contains(d, n, item) == find(d, n, item) # n

(***************************************************************************)
(* The cells of _data each engine call reads or writes, as sets of         *)
(* indexes, following the statements the call executes.                    *)
(***************************************************************************)
\* the cells touched by the iterations of a loop
Touched(trace) ==
    UNION {trace[k].reads \cup trace[k].writes : k \in 1..Len(trace)}

\* find_index of the policy: the search, then data[index] == item
find_touched(d, n, item) ==
    IF IS_ORDERED
    THEN LET index == Ordered_get_push_index(d, n, item)
         IN  Touched(lower_bound_trace(d, item, 0, n, << >>))
                \cup (IF index < n THEN {index} ELSE {})
    ELSE Touched(Sequential_find_trace(d, n, item, 0, << >>))

\* ForbidDuplicationPolicy::allows: the presence check reads the live range
allows_touched(d, n, item) ==
    IF ALLOWS_DUPLICATES THEN {} ELSE 0..(n - 1)

\* push that does not test is_full
push_touched_unchecked_full(d, n, item) ==
    IF ~is_valid THEN {}
    ELSE Touched(insert_trace(n, get_push_index(d, n, item), << >>))

push_touched(d, n, item) ==
    IF ~is_valid \/ is_full(n) THEN {}
    ELSE LET fast == IS_ORDERED /\ ~ALLOWS_DUPLICATES
             index == get_push_index(d, n, item)
             search == IF IS_ORDERED
                       THEN Touched(lower_bound_trace(d, item, 0, n, << >>))
                               \cup (IF fast /\ index # n THEN {index} ELSE {})
                       ELSE {}
             can_add == IF fast
                        THEN ~Ordered_find_insert_position(d, n, item).found
                        ELSE allows(d, n, item)
         IN  search
                \cup (IF fast THEN {} ELSE allows_touched(d, n, item))
                \cup (IF can_add THEN Touched(insert_trace(n, index, << >>))
                      ELSE {})

pop_touched(d, n) ==
    IF ~is_valid \/ is_empty(n) THEN {}
    ELSE LET index == get_pop_index(d, n)
         IN  {index} \cup Touched(remove_trace(index, SizeT(n - 1), << >>))

insert_at_touched(d, n, item, index) ==
    IF ~is_valid \/ is_full(n) THEN {}
    ELSE allows_touched(d, n, item)
            \cup (IF allows(d, n, item) /\ index <= n
                  THEN Touched(insert_trace(n, index, << >>)) ELSE {})

remove_at_touched(d, n, index) ==
    IF ~is_valid \/ is_empty(n) \/ index >= n THEN {}
    ELSE {index} \cup Touched(remove_trace(index, SizeT(n - 1), << >>))

remove_first_touched(d, n, item) ==
    IF ~is_valid \/ is_empty(n) THEN {}
    ELSE LET index == find_index(d, n, item)
         IN  find_touched(d, n, item)
                \cup (IF index = n THEN {}
                      ELSE Touched(remove_trace(index, SizeT(n - 1), << >>)))

remove_all_touched(d, n, item) ==
    IF ~is_valid \/ is_empty(n) THEN {}
    ELSE IF IS_ORDERED
         THEN LET lower_bound == Ordered_find_index(d, n, item)
                  left == upper_bound_search(d, item, lower_bound, n)
              IN  find_touched(d, n, item)
                     \cup (IF lower_bound = n THEN {}
                           ELSE {lower_bound}
                                   \cup Touched(upper_bound_trace(
                                             d, item, lower_bound, n, << >>))
                                   \cup Touched(Ordered_close_gap_trace(
                                             left, n, << >>)))
         ELSE Touched(Sequential_compact_trace(d, n, item, 0, 0, << >>))

\* FixedRingBuffer::push: _data[_tail] = item
ring_push_touched(n, t) ==
    IF ~is_valid \/ (mode = "REJECT" /\ is_full(n)) THEN {} ELSE {t}

\* FixedRingBuffer::pop: out_value = _data[_head]
ring_pop_touched(n, h) ==
    IF ~is_valid \/ is_empty(n) THEN {} ELSE {h}

(***************************************************************************)
(* FixedMap                                                                *)
(***************************************************************************)
add(d, n, o, key, value) == push(d, n, o, KeyValue(key, value))

\* remove that stores V{ } in out_val when the key is not found
Map_remove_default_on_failure(d, n, o, key) ==
    LET keyval == KeyValue(key, 0)
        index == find(d, n, keyval)
    IN  IF index = n
        THEN Outcome(d, n, FALSE, keyval.value)
        ELSE LET r == remove_at(d, n, keyval, index)
             IN  Outcome(r.data, r.size, TRUE, r.out.value)

\* remove(key, out_val): find, then remove_at into a local KeyValue whose
\* value is copied to out_val
Map_remove(d, n, o, key) ==
    LET keyval == KeyValue(key, 0)
        index == find(d, n, keyval)
    IN  IF index = n
        THEN Outcome(d, n, FALSE, o)
        ELSE LET r == remove_at(d, n, keyval, index)
             IN  Outcome(r.data, r.size, TRUE, r.out.value)

\* Base::data(): the engine's accessor to the backing array
Base_data(d) == d

\* try_get that reads the first pair instead of the pair it found
try_get_first_pair(d, n, o, key) ==
    LET index == find(d, n, KeyValue(key, 0))
        is_found == index # n
    IN  Outcome(d, n, is_found, IF is_found THEN Base_data(d)[0].value ELSE o)

try_get(d, n, o, key) ==
    LET index == find(d, n, KeyValue(key, 0))
        is_found == index # n
    IN  Outcome(d, n, is_found,
                IF is_found THEN Base_data(d)[index].value ELSE o)

(***************************************************************************)
(* FixedRingBuffer.  Each operation maps the state                          *)
(* [data, size, head, tail, out] to the state after the call and the       *)
(* returned status.                                                        *)
(***************************************************************************)
\* next without the wrap-around
next_unwrapped(index) == index + 1

next(index) == (index + 1) % capacity

prev(index) == (index + capacity - 1) % capacity

\* physical_index that does not start at _head
physical_index_ignoring_head(h, logical_index) == logical_index % capacity

physical_index(h, logical_index) == (h + logical_index) % capacity

RingOutcome(d, n, h, t, ret, o) ==
    [data |-> d, size |-> n, head |-> h, tail |-> t, ret |-> ret, out |-> o]

\* push that stores the item before it tests is_full
ring_push_store_first(d, n, h, t, o, item) ==
    IF ~is_valid
    THEN RingOutcome(d, n, h, t, FALSE, o)
    ELSE IF is_full(n)
         THEN RingOutcome([d EXCEPT ![t] = item], n, h, t, FALSE, o)
         ELSE RingOutcome([d EXCEPT ![t] = item], SizeT(n + 1), h, next(t), TRUE, o)

\* RingBufferMode::REJECT (the default)
ring_push(d, n, h, t, o, item) ==
    IF ~is_valid \/ is_full(n)
    THEN RingOutcome(d, n, h, t, FALSE, o)
    ELSE RingOutcome([d EXCEPT ![t] = item], SizeT(n + 1), h, next(t), TRUE, o)

\* RingBufferMode::OVERWRITE: when full, head advances past the oldest
\* element before the write at tail
ring_push_overwrite(d, n, h, t, o, item) ==
    IF ~is_valid
    THEN RingOutcome(d, n, h, t, FALSE, o)
    ELSE IF is_full(n)
         THEN RingOutcome([d EXCEPT ![t] = item], n, next(h), next(t), TRUE, o)
         ELSE RingOutcome([d EXCEPT ![t] = item], SizeT(n + 1), h, next(t), TRUE, o)

\* pop that takes the newest element (stack order)
ring_pop_newest(d, n, h, t, o) ==
    IF ~is_valid \/ is_empty(n)
    THEN RingOutcome(d, n, h, t, FALSE, o)
    ELSE RingOutcome(d, SizeT(n - 1), h, prev(t), TRUE, d[prev(t)])

\* pop that does not advance head
ring_pop_keeps_head(d, n, h, t, o) ==
    IF ~is_valid \/ is_empty(n)
    THEN RingOutcome(d, n, h, t, FALSE, o)
    ELSE RingOutcome(d, SizeT(n - 1), h, t, TRUE, d[h])

ring_pop(d, n, h, t, o) ==
    IF ~is_valid \/ is_empty(n)
    THEN RingOutcome(d, n, h, t, FALSE, o)
    ELSE RingOutcome(d, SizeT(n - 1), next(h), t, TRUE, d[h])

\* the logical contents, oldest first: at(0) .. at(size - 1)
at(d, h, index) == d[physical_index(h, index)]

\* FixedRingBuffer::front
front(d, h) == d[h]

\* FixedRingBuffer::back
back(d, t) == d[prev(t)]

Logical(d, n, h) == [i \in 1..n |-> at(d, h, i - 1)]

(***************************************************************************)
(* Iterators.  An iterator is the offset of its cell from _data (linear    *)
(* collections) or its logical index (ring buffer).                        *)
(***************************************************************************)
begin == 0

\* end() that points past the whole backing array
end_at_capacity(n) == capacity

end(n) == n

\* operator *: *_ptr, or _buffer->at(_index) for the ring buffer
Iterator_dereference(d, h, it) ==
    IF facade = "FixedRingBuffer" THEN at(d, h, it) ELSE d[it]

\* operator ++
Iterator_increment(it) == it + 1

\* operator !=
Iterator_not_equal(it, other) == it # other

\* for (auto& item : collection): the elements the loop body is given
RECURSIVE range_for(_, _, _, _, _)
range_for(d, n, h, it, visited) ==
    IF Iterator_not_equal(it, end(n))
    THEN range_for(d, n, h, Iterator_increment(it),
                   Append(visited, Iterator_dereference(d, h, it)))
    ELSE visited

(***************************************************************************)
(* ScopedInterruptLock                                                     *)
(***************************************************************************)
\* interruptsEnabled that reads the hardware flag on every platform
interruptsEnabled_reading_flag(flag) == flag

\* interruptsEnabled(): reads SREG bit 7 on AVR, a stub elsewhere
interruptsEnabled(flag) == IF arch = "AVR" THEN flag ELSE TRUE

\* a constructor that leaves out the call of noInterrupts()
noInterrupts_missing(flag) == flag

\* noInterrupts() of the Arduino core: clears the interrupt-enable flag
noInterrupts(flag) == FALSE

\* interrupts() of the Arduino core: sets the interrupt-enable flag
interrupts(flag) == TRUE

\* the flag after constructor, body and destructor of one lock scope
ScopedInterruptLock(flag) ==
    LET were_enabled == interruptsEnabled(flag)
        disabled == noInterrupts(flag)
    IN  IF were_enabled THEN interrupts(disabled) ELSE disabled

\* the members of an instance
Instance(v, d, c, n, h, t) ==
    [constructed |-> TRUE, valid |-> v, data |-> d, capacity |-> c,
     size |-> n, head |-> h, tail |-> t]

\* no second instance has been constructed
NoInstance == [constructed |-> FALSE]

\* a move constructor that leaves other._data pointing at the array
move_ctor_keeps_source(v, d, c, n, h, t) ==
    [this |-> Instance(v, d, c, n, h, t),
     other |-> Instance(v, d, 0, 0, 0, 0)]

\* LinearCollection(LinearCollection&& other) and
\* FixedRingBuffer(FixedRingBuffer&& other): the new instance takes other's
\* members; other is left with nullptr, 0 and 0 (a null _data has no cells)
move_ctor(v, d, c, n, h, t) ==
    [this |-> Instance(v, d, c, n, h, t),
     other |-> Instance(FALSE, << >>, 0, 0, 0, 0)]

\* an instance together with the address its _data holds ("null" for
\* nullptr); arrays are named after the constructor call that allocated them
Owning(instance, ptr) ==
    [valid |-> instance.valid, data |-> instance.data,
     capacity |-> instance.capacity, size |-> instance.size,
     head |-> instance.head, tail |-> instance.tail, ptr |-> ptr]

\* what a moved-from instance holds
Null == Owning(Instance(FALSE, << >>, 0, 0, 0, 0), "null")

\* LinearCollection::operator =(LinearCollection&& other): _data, _capacity
\* and _size are overwritten with other's and other is emptied; there is no
\* delete[] of the array this instance held (and no return statement)
LinearCollection_move_assign(this, other) ==
    [this |-> [other EXCEPT !.head = this.head, !.tail = this.tail],
     other |-> Null,
     deleted |-> {}]

\* FixedRingBuffer::operator =(FixedRingBuffer&& other), this != &other
FixedRingBuffer_move_assign(this, other) ==
    [this |-> other, other |-> Null, deleted |-> {this.ptr} \ {"null"}]

\* the move assignment of the instance's class
move_assign(this, other) ==
    IF facade = "FixedRingBuffer" THEN FixedRingBuffer_move_assign(this, other)
    ELSE LinearCollection_move_assign(this, other)

\* no atomic call in progress
NoCall == [op |-> "none", item |-> 0, interleaved |-> FALSE]

\* nothing read yet by the body of an atomic call
NoOutcome == [ret |-> FALSE]

(***************************************************************************)
(* Construction                                                            *)
(***************************************************************************)
Call(op, item, index, ret) ==
    [op |-> op, item |-> item, index |-> index, ret |-> ret]

\* a constructor that keeps the requested capacity when it has no storage
LinearCollection_ctor_keeps_capacity(requested, allocated) ==
    [valid |-> (requested > 0 /\ allocated), capacity |-> requested]

\* LinearCollection(size_t capacity) and FixedRingBuffer(size_t max_capacity):
\* new T[capacity] yields nullptr when capacity is 0 or the allocation fails,
\* and _capacity is then set to 0.
LinearCollection_ctor(requested, allocated) ==
    LET has_data == requested > 0 /\ allocated
    IN  [valid |-> has_data, capacity |-> (IF has_data THEN requested ELSE 0)]

\* The instance may be constructed with interrupts enabled or disabled; the
\* facades without atomic operations never look at the interrupt flag.
Init ==
    /\ facade \in Facades
    /\ sorting \in (IF facade \in {"FixedOrderedVector", "FixedOrderedSet"}
                    THEN {"Ascending", "Descending"} ELSE {"Ascending"})
    /\ mode \in (IF facade = "FixedRingBuffer"
                 THEN {"REJECT", "OVERWRITE"} ELSE {"REJECT"})
    /\ arch \in (IF facade \in AtomicFacades THEN {"AVR", "STUB"} ELSE {"AVR"})
    /\ irq \in (IF facade \in AtomicFacades THEN BOOLEAN ELSE {TRUE})
    /\ \E requested \in 0..MaxCapacity, allocated \in BOOLEAN :
          /\ valid = LinearCollection_ctor(requested, allocated).valid
          /\ capacity = LinearCollection_ctor(requested, allocated).capacity
    /\ data = [i \in 0..(capacity - 1) |-> DefaultT(facade)]
    /\ size = 0
    /\ head = 0
    /\ tail = 0
    /\ out = 0
    /\ last = Call("construct", DefaultT(facade), 0, valid)
    /\ pushed = << >>
    /\ popped = << >>
    /\ pc = "idle"
    /\ lock = << >>
    /\ cur = NoCall
    /\ pending = NoOutcome
    /\ moved = NoInstance

(***************************************************************************)
(* Calls on the linear facades                                             *)
(***************************************************************************)
\* the instance takes the outcome r of an engine call
Return(r, op, item, index) ==
    /\ data' = r.data
    /\ size' = r.size
    /\ out' = r.out
    /\ last' = Call(op, item, index, r.ret)
    /\ UNCHANGED <<config, moved, context, valid, capacity, head, tail, pushed, popped>>

\* FixedVector::push, FixedSet::insert, FixedOrderedVector::insert,
\* FixedOrderedSet::insert
Push ==
    /\ facade \in {"FixedVector", "FixedSet", "FixedOrderedVector", "FixedOrderedSet"}
    /\ \E item \in ItemsOf(facade) :
          Return(push(data, size, out, item), "push", item, 0)
    /\ UNCHANGED irq

\* FixedVector::pop
Pop ==
    /\ facade = "FixedVector"
    /\ Return(pop(data, size, out), "pop", DefaultT(facade), 0)
    /\ UNCHANGED irq

\* FixedVector::push_atomic: push inside a ScopedInterruptLock
PushAtomic ==
    /\ facade = "FixedVector"
    /\ \E item \in ItemsOf(facade) :
          Return(push(data, size, out, item), "push_atomic", item, 0)
    /\ irq' = ScopedInterruptLock(irq)

\* FixedVector::pop_atomic: pop inside a ScopedInterruptLock
PopAtomic ==
    /\ facade = "FixedVector"
    /\ Return(pop(data, size, out), "pop_atomic", DefaultT(facade), 0)
    /\ irq' = ScopedInterruptLock(irq)

\* FixedVector::insert_at, FixedSet::insert_at
InsertAt ==
    /\ facade \in {"FixedVector", "FixedSet"}
    /\ \E item \in ItemsOf(facade), index \in 0..(size + 1) :
          Return(insert_at(data, size, out, item, index), "insert_at", item, index)
    /\ UNCHANGED irq

\* FixedVector::remove_at
RemoveAt ==
    /\ facade = "FixedVector"
    /\ \E index \in 0..(size + 1) :
          Return(remove_at(data, size, out, index), "remove_at", DefaultT(facade), index)
    /\ UNCHANGED irq

\* FixedVector::remove_first, FixedOrderedVector::remove_first,
\* FixedSet::erase, FixedOrderedSet::erase
RemoveFirst ==
    /\ facade \in {"FixedVector", "FixedSet", "FixedOrderedVector", "FixedOrderedSet"}
    /\ \E item \in ItemsOf(facade) :
          Return(remove_first(data, size, out, item), "remove_first", item, 0)
    /\ UNCHANGED irq

\* FixedVector::remove_all, FixedOrderedVector::remove_all
RemoveAll ==
    /\ facade \in {"FixedVector", "FixedOrderedVector"}
    /\ \E item \in ItemsOf(facade) :
          Return(remove_all(data, size, out, item), "remove_all", item, 0)
    /\ UNCHANGED irq

\* clear that also gives the backing array back
Clear_releasing_storage ==
    /\ facade \in LinearFacades
    /\ size' = 0
    /\ valid' = FALSE
    /\ capacity' = 0
    /\ data' = << >>
    /\ last' = Call("clear", DefaultT(facade), 0, TRUE)
    /\ UNCHANGED <<config, moved, context, head, tail, out, pushed, popped, irq>>

\* LinearCollection::clear, public on every facade
Clear ==
    /\ facade \in LinearFacades
    /\ size' = 0
    /\ last' = Call("clear", DefaultT(facade), 0, TRUE)
    /\ UNCHANGED <<config, moved, context, valid, data, capacity, head, tail, out,
                   pushed, popped, irq>>

\* FixedMap::add
Add ==
    /\ facade = "FixedMap"
    /\ \E key \in Items, value \in MapValues :
          Return(add(data, size, out, key, value), "add", KeyValue(key, value), 0)
    /\ UNCHANGED irq

\* FixedMap::remove
Remove ==
    /\ facade = "FixedMap"
    /\ \E key \in Items :
          Return(Map_remove(data, size, out, key), "remove", KeyValue(key, 0), 0)
    /\ UNCHANGED irq

\* FixedMap::try_get
TryGet ==
    /\ facade = "FixedMap"
    /\ \E key \in Items :
          Return(try_get(data, size, out, key), "try_get", KeyValue(key, 0), 0)
    /\ UNCHANGED irq

(***************************************************************************)
(* Calls on FixedRingBuffer                                                *)
(***************************************************************************)
\* push in the instance's mode
ring_push_mode(d, n, h, t, o, item) ==
    IF mode = "OVERWRITE" THEN ring_push_overwrite(d, n, h, t, o, item)
    ELSE ring_push(d, n, h, t, o, item)

RingReturn(r, op, item) ==
    /\ data' = r.data
    /\ size' = r.size
    /\ head' = r.head
    /\ tail' = r.tail
    /\ out' = r.out
    /\ last' = Call(op, item, 0, r.ret)
    /\ UNCHANGED <<config, moved, context, valid, capacity>>

\* a successful push is recorded while the record has room
RingPushCall(op) ==
    \E item \in ItemsOf(facade) :
        LET r == ring_push_mode(data, size, head, tail, out, item)
        IN  /\ r.ret => Len(pushed) < MaxPushes
            /\ RingReturn(r, op, item)
            /\ pushed' = (IF r.ret THEN Append(pushed, item) ELSE pushed)
            /\ UNCHANGED popped

RingPopCall(op) ==
    LET r == ring_pop(data, size, head, tail, out)
    IN  /\ RingReturn(r, op, DefaultT(facade))
        /\ popped' = (IF r.ret THEN Append(popped, r.out) ELSE popped)
        /\ UNCHANGED pushed

\* FixedRingBuffer::push
RingPush ==
    /\ facade = "FixedRingBuffer"
    /\ RingPushCall("push")
    /\ UNCHANGED irq

\* FixedRingBuffer::pop
RingPop ==
    /\ facade = "FixedRingBuffer"
    /\ RingPopCall("pop")
    /\ UNCHANGED irq

\* FixedRingBuffer::push_atomic
RingPushAtomic ==
    /\ facade = "FixedRingBuffer"
    /\ RingPushCall("push_atomic")
    /\ irq' = ScopedInterruptLock(irq)

\* FixedRingBuffer::pop_atomic
RingPopAtomic ==
    /\ facade = "FixedRingBuffer"
    /\ RingPopCall("pop_atomic")
    /\ irq' = ScopedInterruptLock(irq)

\* clear that resets _size and _head but leaves _tail where it was
RingClear_keeps_tail ==
    /\ facade = "FixedRingBuffer"
    /\ size' = 0
    /\ head' = 0
    /\ last' = Call("clear", DefaultT(facade), 0, TRUE)
    /\ pushed' = << >>
    /\ popped' = << >>
    /\ UNCHANGED <<config, moved, context, valid, data, capacity, tail, out, irq>>

\* FixedRingBuffer::clear; the record of pushes and pops starts again
RingClear ==
    /\ facade = "FixedRingBuffer"
    /\ size' = 0
    /\ head' = 0
    /\ tail' = 0
    /\ last' = Call("clear", DefaultT(facade), 0, TRUE)
    /\ pushed' = << >>
    /\ popped' = << >>
    /\ UNCHANGED <<config, moved, context, valid, data, capacity, out, irq>>

Next ==
    \/ Push
    \/ Pop
    \/ PushAtomic
    \/ PopAtomic
    \/ InsertAt
    \/ RemoveAt
    \/ RemoveFirst
    \/ RemoveAll
    \/ Clear
    \/ Add
    \/ Remove
    \/ TryGet
    \/ RingPush
    \/ RingPop
    \/ RingPushAtomic
    \/ RingPopAtomic
    \/ RingClear

Spec == Init /\ [][Next]_vars

(***************************************************************************)
(* The calls above together with the const member functions, which read    *)
(* the collection without changing it.                                     *)
(***************************************************************************)
\* LinearCollection::find, public on every facade; the collection is const
Find ==
    /\ facade \in LinearFacades
    /\ \E item \in ItemsOf(facade) :
          last' = Call("find", item, find(data, size, item), TRUE)
    /\ UNCHANGED <<config, moved, context, valid, data, capacity, size, head,
                   tail, out, pushed, popped, irq>>

\* LinearCollection::contains, public on every facade
Contains ==
    /\ facade \in LinearFacades
    /\ \E item \in ItemsOf(facade) :
          last' = Call("contains", item, 0, contains(data, size, item))
    /\ UNCHANGED <<config, moved, context, valid, data, capacity, size, head,
                   tail, out, pushed, popped, irq>>

\* a range-for loop over the instance whose body only reads the elements;
\* the call record holds the elements visited and their number
RangeFor ==
    /\ LET visited == range_for(data, size, head, begin, << >>)
       IN  last' = Call("range_for", visited, Len(visited), TRUE)
    /\ UNCHANGED <<config, moved, context, valid, data, capacity, size, head,
                   tail, out, pushed, popped, irq>>

\* a const call on the ring buffer that returns the element `value`
RingRead(op, value, index) ==
    /\ last' = Call(op, value, index, TRUE)
    /\ UNCHANGED <<config, moved, context, valid, data, capacity, size, head,
                   tail, out, pushed, popped, irq>>

\* FixedRingBuffer::at and operator [], called with index < size() as their
\* contract demands
RingAt ==
    /\ facade = "FixedRingBuffer"
    /\ \E index \in 0..(size - 1) : RingRead("at", at(data, head, index), index)

\* FixedRingBuffer::front, called on a buffer that holds an element
RingFront ==
    /\ facade = "FixedRingBuffer"
    /\ size > 0
    /\ RingRead("front", front(data, head), 0)

\* FixedRingBuffer::back, called on a buffer that holds an element
RingBack ==
    /\ facade = "FixedRingBuffer"
    /\ size > 0
    /\ RingRead("back", back(data, tail), 0)

NextQuery ==
    \/ Next
    \/ Find
    \/ Contains
    \/ RangeFor
    \/ RingAt
    \/ RingFront
    \/ RingBack

SpecQuery == Init /\ [][NextQuery]_vars

(***************************************************************************)
(* The engine used directly by a derived class: push and pop are protected *)
(* members of LinearCollection, available to a derived class whatever the  *)
(* policies it was instantiated with.  The value of facade stands for the  *)
(* template arguments of the engine.                                       *)
(***************************************************************************)
\* LinearCollection::push called by a derived class
EnginePush ==
    /\ facade \in LinearFacades
    /\ \E item \in ItemsOf(facade) :
          Return(push(data, size, out, item), "push", item, 0)
    /\ UNCHANGED irq

\* LinearCollection::pop called by a derived class
EnginePop ==
    /\ facade \in LinearFacades
    /\ Return(pop(data, size, out), "pop", DefaultT(facade), 0)
    /\ UNCHANGED irq

InitEngine ==
    /\ Init
    /\ facade \in LinearFacades

NextEngine ==
    \/ EnginePush
    \/ EnginePop
    \/ Clear

SpecEngine == InitEngine /\ [][NextEngine]_vars

(***************************************************************************)
(* Main context and interrupt handler on one FixedVector or                *)
(* FixedRingBuffer.  The main context runs push_atomic and pop_atomic      *)
(* statement by statement, possibly inside a ScopedInterruptLock scope of  *)
(* its own; the handler runs push or pop to completion whenever the        *)
(* interrupt-enable flag is set, and returns with the flag as it found it. *)
(***************************************************************************)
\* ScopedInterruptLock(): _were_enabled = interruptsEnabled().  irq_before
\* and nested record the flag as it really was and whether another lock was
\* created during this one's lifetime; the code reads neither.
LockCtor(l, flag) ==
    Append(IF l = << >> THEN l ELSE [l EXCEPT ![Len(l)].nested = TRUE],
           [were_enabled |-> interruptsEnabled(flag),
            irq_before |-> flag,
            nested |-> FALSE])

\* ~ScopedInterruptLock() of the innermost lock: the flag it leaves
LockDtor(l, flag) ==
    IF l[Len(l)].were_enabled THEN interrupts(flag) ELSE flag

\* push(item) or pop(out_value) of the instance's class on the state given
Body(op, item, d, n, h, t, o) ==
    IF facade = "FixedRingBuffer"
    THEN IF op \in {"push", "push_atomic"}
         THEN ring_push_mode(d, n, h, t, o, item)
         ELSE ring_pop(d, n, h, t, o)
    ELSE LET r == IF op \in {"push", "push_atomic"}
                  THEN push(d, n, o, item)
                  ELSE pop(d, n, o)
         IN  RingOutcome(r.data, r.size, h, t, r.ret, r.out)

\* the record of the ring buffer's successful pushes and pops after a call
Recorded(op, item, r) ==
    /\ pushed' = (IF facade = "FixedRingBuffer" /\ r.ret
                      /\ op \in {"push", "push_atomic"}
                  THEN Append(pushed, item) ELSE pushed)
    /\ popped' = (IF facade = "FixedRingBuffer" /\ r.ret
                      /\ op \in {"pop", "pop_atomic"}
                  THEN Append(popped, r.out) ELSE popped)

\* { ScopedInterruptLock lock{}; ... in the sketch: the constructor's read
OuterLockCtor ==
    /\ pc = "idle"
    /\ lock = << >>
    /\ lock' = LockCtor(lock, irq)
    /\ pc' = "outer_ctor"
    /\ UNCHANGED <<config, moved, valid, data, capacity, size, head, tail, out, last,
                   pushed, popped, irq, cur, pending>>

\* the constructor's noInterrupts()
OuterLockDisable ==
    /\ pc = "outer_ctor"
    /\ irq' = noInterrupts(irq)
    /\ pc' = "idle"
    /\ UNCHANGED <<config, moved, valid, data, capacity, size, head, tail, out, last,
                   pushed, popped, lock, cur, pending>>

\* ... } in the sketch: the destructor of the scope's lock
OuterLockDtor ==
    /\ pc = "idle"
    /\ Len(lock) = 1
    /\ irq' = LockDtor(lock, irq)
    /\ lock' = << >>
    /\ UNCHANGED <<config, moved, valid, data, capacity, size, head, tail, out, last,
                   pushed, popped, pc, cur, pending>>

\* the main context calls push_atomic(item) or pop_atomic(out): the lock's
\* constructor reads the flag
AtomicCall(op) ==
    /\ pc = "idle"
    /\ \E item \in (IF op = "push_atomic" THEN ItemsOf(facade)
                     ELSE {DefaultT(facade)}) :
          cur' = [op |-> op, item |-> item, interleaved |-> FALSE]
    /\ lock' = LockCtor(lock, irq)
    /\ pc' = "ctor"
    /\ UNCHANGED <<config, moved, valid, data, capacity, size, head, tail, out, last,
                   pushed, popped, irq, pending>>

\* the lock's constructor calls noInterrupts()
AtomicDisable ==
    /\ pc = "ctor"
    /\ irq' = noInterrupts(irq)
    /\ pc' = "body"
    /\ UNCHANGED <<config, moved, valid, data, capacity, size, head, tail, out, last,
                   pushed, popped, lock, cur, pending>>

\* the body reads the members and computes what it will store
AtomicBodyRead ==
    /\ pc = "body"
    /\ LET r == Body(cur.op, cur.item, data, size, head, tail, out)
       IN  /\ (facade = "FixedRingBuffer" /\ cur.op = "push_atomic" /\ r.ret)
                 => Len(pushed) < MaxIsrPushes
           /\ pending' = r
    /\ pc' = "store"
    /\ UNCHANGED <<config, moved, valid, data, capacity, size, head, tail, out, last,
                   pushed, popped, irq, lock, cur>>

\* the body stores what it computed and returns its status
AtomicBodyStore ==
    /\ pc = "store"
    /\ data' = pending.data
    /\ size' = pending.size
    /\ head' = pending.head
    /\ tail' = pending.tail
    /\ out' = pending.out
    /\ last' = Call(cur.op, cur.item, 0, pending.ret)
    /\ Recorded(cur.op, cur.item, pending)
    /\ pending' = NoOutcome
    /\ pc' = "dtor"
    /\ UNCHANGED <<config, moved, valid, capacity, irq, lock, cur>>

\* the lock's destructor runs and the call returns
AtomicDtor ==
    /\ pc = "dtor"
    /\ irq' = LockDtor(lock, irq)
    /\ lock' = SubSeq(lock, 1, Len(lock) - 1)
    /\ cur' = NoCall
    /\ pc' = "idle"
    /\ UNCHANGED <<config, moved, valid, data, capacity, size, head, tail, out, last,
                   pushed, popped, pending>>

\* the interrupt handler fires and runs push(item) or pop(local) to its end;
\* the hardware takes an interrupt only while the flag is set
Isr(op) ==
    /\ irq = TRUE
    /\ \E item \in (IF op = "push" THEN ItemsOf(facade) ELSE {DefaultT(facade)}) :
          LET r == Body(op, item, data, size, head, tail, out)
          IN  /\ (facade = "FixedRingBuffer" /\ op = "push" /\ r.ret)
                    => Len(pushed) < MaxIsrPushes
              /\ data' = r.data
              /\ size' = r.size
              /\ head' = r.head
              /\ tail' = r.tail
              /\ last' = Call(op, item, 0, r.ret)
              /\ Recorded(op, item, r)
    /\ cur' = (IF pc \in {"ctor", "body", "store", "dtor"}
               THEN [cur EXCEPT !.interleaved = TRUE] ELSE cur)
    /\ UNCHANGED <<config, moved, valid, capacity, out, irq, pc, lock, pending>>

InitInterrupt ==
    /\ Init
    /\ facade \in AtomicFacades
    /\ capacity <= MaxIsrCapacity

NextInterrupt ==
    \/ OuterLockCtor
    \/ OuterLockDisable
    \/ OuterLockDtor
    \/ AtomicCall("push_atomic")
    \/ AtomicCall("pop_atomic")
    \/ AtomicDisable
    \/ AtomicBodyRead
    \/ AtomicBodyStore
    \/ AtomicDtor
    \/ Isr("push")
    \/ Isr("pop")

SpecInterrupt == InitInterrupt /\ [][NextInterrupt]_vars

(***************************************************************************)
(* Producer and consumer: the interrupt handler pushes, the main loop      *)
(* calls pop_atomic, on the FixedRingBuffer whose push refuses when full.  *)
(***************************************************************************)
InitProducerConsumer ==
    /\ InitInterrupt
    /\ facade = "FixedRingBuffer"
    /\ mode = "REJECT"

\* one statement of the main loop's pop_atomic
MainLoopPop ==
    \/ AtomicCall("pop_atomic")
    \/ AtomicDisable
    \/ AtomicBodyRead
    \/ AtomicBodyStore
    \/ AtomicDtor

NextProducerConsumer ==
    \/ Isr("push")
    \/ MainLoopPop

\* the main loop keeps running: it is never held up for ever
SpecProducerConsumer ==
    InitProducerConsumer /\ [][NextProducerConsumer]_vars /\ WF_vars(MainLoopPop)

(***************************************************************************)
(* Move construction: a second instance is move-constructed from the one   *)
(* the behaviour follows, which stays in use as the moved-from source.     *)
(***************************************************************************)
\* T b{ static_cast<T&&>(a) }: the record of the ring buffer's pushes and
\* pops starts again for the moved-from instance
MoveConstruct ==
    /\ ~moved.constructed
    /\ LET r == move_ctor(valid, data, capacity, size, head, tail)
       IN  /\ moved' = r.this
           /\ valid' = r.other.valid
           /\ data' = r.other.data
           /\ capacity' = r.other.capacity
           /\ size' = r.other.size
           /\ head' = r.other.head
           /\ tail' = r.other.tail
    /\ last' = Call("move", DefaultT(facade), 0, TRUE)
    /\ pushed' = << >>
    /\ popped' = << >>
    /\ UNCHANGED <<config, context, out, irq>>

InitMove ==
    /\ Init
    /\ capacity <= MaxMoveCapacity

NextMove ==
    \/ Next
    \/ MoveConstruct

SpecMove == InitMove /\ [][NextMove]_vars

(***************************************************************************)
(* Move assignment.  The instance of the behaviour is B; a second instance *)
(* A of the same class is constructed with its own array, and B is move-   *)
(* assigned into A (A = std::move(B)).  moved holds A together with the    *)
(* set of arrays that are allocated and not yet deleted.                   *)
(***************************************************************************)
\* the address B's _data holds
SourcePtr == IF valid THEN "b" ELSE "null"

\* B as an owning instance
Source == Owning(Instance(valid, data, capacity, size, head, tail), SourcePtr)

\* the constructor of A: a new array "a" unless the allocation fails
ConstructTarget ==
    /\ ~moved.constructed
    /\ \E requested \in 0..MaxMoveCapacity, allocated \in BOOLEAN :
          LET r == LinearCollection_ctor(requested, allocated)
              d == [i \in 0..(r.capacity - 1) |-> DefaultT(facade)]
          IN  moved' = [constructed |-> TRUE,
                        assigned |-> FALSE,
                        this |-> Owning(Instance(r.valid, d, r.capacity, 0, 0, 0),
                                        IF r.valid THEN "a" ELSE "null"),
                        heap |-> ({SourcePtr} \cup
                                  {IF r.valid THEN "a" ELSE "null"}) \ {"null"}]
    /\ last' = Call("construct", DefaultT(facade), 0, TRUE)
    /\ UNCHANGED <<config, context, valid, data, capacity, size, head, tail,
                   out, pushed, popped, irq>>

\* A = std::move(B)
MoveAssign ==
    /\ moved.constructed
    /\ ~moved.assigned
    /\ LET r == move_assign(moved.this, Source)
       IN  /\ moved' = [moved EXCEPT !.assigned = TRUE,
                                     !.this = r.this,
                                     !.heap = @ \ r.deleted]
           /\ valid' = r.other.valid
           /\ data' = r.other.data
           /\ capacity' = r.other.capacity
           /\ size' = r.other.size
           /\ head' = r.other.head
           /\ tail' = r.other.tail
    /\ last' = Call("move_assign", DefaultT(facade), 0, TRUE)
    /\ pushed' = << >>
    /\ popped' = << >>
    /\ UNCHANGED <<config, context, out, irq>>

InitMoveAssign ==
    /\ Init
    /\ capacity <= MaxMoveCapacity

NextMoveAssign ==
    \/ Next
    \/ ConstructTarget
    \/ MoveAssign

SpecMoveAssign == InitMoveAssign /\ [][NextMoveAssign]_vars

(***************************************************************************)
(* Properties                                                              *)
(***************************************************************************)
\* the element x is among the live cells d[0..n-1]
IsLive(d, n, x) == \E i \in 0..(n - 1) : d[i] = x

\* C1: in every reachable state size() <= capacity(), and no call changes
\* capacity(): it keeps the value it had right after construction.
C1_SizeWithinCapacity ==
    /\ [](size <= capacity)
    /\ [][capacity' = capacity]_vars

\* C1 witness: a full collection has just refused one more push.
C1_Witness ==
    /\ last.op = "push"
    /\ last.ret = FALSE
    /\ capacity = MaxCapacity
    /\ size = capacity

\* C2: on FixedOrderedVector, FixedOrderedSet and FixedMap the live elements
\* are sorted: for every adjacent pair a (index i) and b (index i+1),
\* order(b, a) is false.
C2_OrderedFacadesSorted ==
    facade \in OrderedFacades =>
        \A i \in 0..(size - 2) : ~order(data[i + 1], data[i])

\* C2 witness: a Descending ordered collection holding two different values
\* after a successful insert that did not go to the end.
C2_Witness ==
    /\ facade \in {"FixedOrderedVector", "FixedOrderedSet"}
    /\ sorting = "Descending"
    /\ last.op = "push"
    /\ last.ret = TRUE
    /\ size >= 2
    /\ data[size - 1] # last.item
    /\ data[0] # data[size - 1]

\* a step that is a call of insert(x) on FixedSet or FixedOrderedSet
SetInsertStep ==
    /\ facade \in {"FixedSet", "FixedOrderedSet"}
    /\ last'.op = "push"

\* C3: on FixedSet and FixedOrderedSet that is not full, insert(x) returns
\* false and leaves size and contents unchanged when an element equal to x is
\* live, and returns true when none is; so of two insert(x) calls in a row
\* with equal x the second always returns false and changes nothing (the
\* first succeeded exactly when x was not live and the set was not full).
C3_DuplicateInsertRejected ==
    [][SetInsertStep =>
          /\ (~is_full(size) /\ IsLive(data, size, last'.item)) =>
                (last'.ret = FALSE /\ size' = size /\ data' = data)
          /\ (valid /\ ~is_full(size) /\ ~IsLive(data, size, last'.item)) =>
                (last'.ret = TRUE /\ size' = size + 1
                    /\ IsLive(data', size', last'.item))
          /\ (last.op = "push" /\ last.item = last'.item) =>
                (last'.ret = FALSE /\ size' = size /\ data' = data)
    ]_vars

\* C3 witness: a set that is not full has just refused an insert of a value
\* it already holds.
C3_Witness ==
    /\ facade \in {"FixedSet", "FixedOrderedSet"}
    /\ last.op = "push"
    /\ last.ret = FALSE
    /\ size < capacity
    /\ IsLive(data, size, last.item)

\* C4: on FixedSet, FixedOrderedSet and FixedMap no two live cells compare
\* equal (for FixedMap: no two live pairs have the same key).
C4_NoDuplicates ==
    facade \in ForbidFacades =>
        \A i, j \in 0..(size - 1) :
            i # j => IF facade = "FixedMap" THEN data[i].key # data[j].key
                     ELSE data[i] # data[j]

\* C4 witness: a FixedSet with at least two elements and room left has just
\* refused an insert_at of a live value at a valid index.
C4_Witness ==
    /\ facade = "FixedSet"
    /\ last.op = "insert_at"
    /\ last.ret = FALSE
    /\ last.index <= size
    /\ size >= 2
    /\ size < capacity
    /\ IsLive(data, size, last.item)

\* C5: in a reject-mode FixedRingBuffer the values returned by the
\* successful pops are the values of the successful pushes in the same order
\* (the pops are a prefix of the pushes) and the values still in the buffer
\* are the pushes not yet popped, oldest first.
C5_RingBufferFifo ==
    (facade = "FixedRingBuffer" /\ mode = "REJECT") =>
        /\ Len(popped) <= Len(pushed)
        /\ popped = SubSeq(pushed, 1, Len(popped))
        /\ Logical(data, size, head) = SubSeq(pushed, Len(popped) + 1, Len(pushed))

\* C5 witness: a successful pop after head has wrapped around the end of
\* the array, with values still in the buffer.
C5_Witness ==
    /\ facade = "FixedRingBuffer"
    /\ mode = "REJECT"
    /\ last.op = "pop"
    /\ last.ret = TRUE
    /\ capacity >= 2
    /\ Len(popped) > capacity
    /\ size >= 1

\* a step that is a call of push or push_atomic on a FixedRingBuffer
RingPushStep ==
    /\ facade = "FixedRingBuffer"
    /\ last'.op \in {"push", "push_atomic"}

\* a step that is a call of pop or pop_atomic on a FixedRingBuffer
RingPopStep ==
    /\ facade = "FixedRingBuffer"
    /\ last'.op \in {"pop", "pop_atomic"}

\* C6: in an overwrite-mode FixedRingBuffer (with storage) push always
\* returns true; a push on a full buffer advances head, writes the item at
\* the old tail and leaves size equal to capacity; the logical contents are
\* the last size() pushed values in push order.
C6_OverwriteKeepsNewest ==
    /\ []((facade = "FixedRingBuffer" /\ mode = "OVERWRITE") =>
            /\ size <= Len(pushed)
            /\ Logical(data, size, head)
                  = SubSeq(pushed, Len(pushed) - size + 1, Len(pushed)))
    /\ [][(RingPushStep /\ mode = "OVERWRITE" /\ valid) =>
            /\ last'.ret = TRUE
            /\ size = capacity =>
                  /\ head' = (head + 1) % capacity
                  /\ tail' = (tail + 1) % capacity
                  /\ data' = [data EXCEPT ![tail] = last'.item]
                  /\ size' = capacity
       ]_vars

\* C6 witness: capacity 3, pushes 1,2,2,1 leave 2,2,1 (the oldest value is gone).
C6_Witness ==
    /\ facade = "FixedRingBuffer"
    /\ mode = "OVERWRITE"
    /\ capacity = 3
    /\ last.op = "push"
    /\ last.ret = TRUE
    /\ pushed = <<1, 2, 2, 1>>
    /\ Logical(data, size, head) = <<2, 2, 1>>

\* C7: in a reject-mode FixedRingBuffer with capacity > 0, push returns
\* false exactly when size == capacity and pop returns false exactly when
\* size == 0; a failed push or pop leaves size, head, tail and the logical
\* contents unchanged.
C7_RejectModeStatus ==
    [][(facade = "FixedRingBuffer" /\ mode = "REJECT" /\ capacity > 0) =>
          /\ RingPushStep => (last'.ret = FALSE <=> size = capacity)
          /\ RingPopStep => (last'.ret = FALSE <=> size = 0)
          /\ ((RingPushStep \/ RingPopStep) /\ last'.ret = FALSE) =>
                /\ size' = size
                /\ head' = head
                /\ tail' = tail
                /\ Logical(data', size', head') = Logical(data, size, head)
    ]_vars

\* C7 witness: a full buffer whose head is not at index 0 has just refused
\* a push.
C7_Witness ==
    /\ facade = "FixedRingBuffer"
    /\ mode = "REJECT"
    /\ last.op = "push"
    /\ last.ret = FALSE
    /\ capacity >= 2
    /\ size = capacity
    /\ head > 0

\* the values the live pairs d[0..n-1] store for key k
Stored(d, n, k) == {d[i].value : i \in {j \in 0..(n - 1) : d[j].key = k}}

\* C8: FixedMap.add(k, v2) with k already present returns false and leaves
\* size and the stored pairs unchanged; a successful add(k, v) stores v for
\* k; until k is removed or the map is cleared no call changes the value
\* stored for k; try_get(k, out) with k present returns true with that value.
C8_MapAddKeepsFirstValue ==
    [][facade = "FixedMap" =>
          /\ (last'.op = "add" /\ Stored(data, size, last'.item.key) # {}) =>
                (last'.ret = FALSE /\ size' = size /\ data' = data)
          /\ (last'.op = "add" /\ last'.ret = TRUE) =>
                Stored(data', size', last'.item.key) = {last'.item.value}
          /\ (last'.op = "try_get" /\ Stored(data, size, last'.item.key) # {}) =>
                /\ last'.ret = TRUE
                /\ Stored(data, size, last'.item.key) = {out'}
                /\ size' = size
                /\ data' = data
          /\ \A k \in Items :
                (/\ Stored(data, size, k) # {}
                 /\ last'.op # "clear"
                 /\ ~(last'.op = "remove" /\ last'.item.key = k)) =>
                    Stored(data', size', k) = Stored(data, size, k)
    ]_vars

\* C8 witness: a map with room left has just refused add(k, v2) for a key
\* it holds with another value.
C8_Witness ==
    /\ facade = "FixedMap"
    /\ last.op = "add"
    /\ last.ret = FALSE
    /\ size < capacity
    /\ Stored(data, size, last.item.key) # {}
    /\ last.item.value \notin Stored(data, size, last.item.key)

\* C9: push and push_atomic on a FixedVector whose size equals its capacity
\* return false and leave size and every live element unchanged.
C9_PushOnFullVector ==
    [][(/\ facade = "FixedVector"
        /\ last'.op \in {"push", "push_atomic"}
        /\ size = capacity) =>
          /\ last'.ret = FALSE
          /\ size' = size
          /\ Live(data', size') = Live(data, size)
    ]_vars

\* C9 witness: a full FixedVector has just refused a push_atomic.
C9_Witness ==
    /\ facade = "FixedVector"
    /\ last.op = "push_atomic"
    /\ last.ret = FALSE
    /\ capacity >= 2
    /\ size = capacity

\* C10: insert_at(item, index) on a FixedVector returns false and changes
\* nothing when index > size; when index == size and the vector is not full
\* it succeeds, appends item, and yields the size and contents push(item)
\* yields from the same state.
C10_InsertAtIndexBounds ==
    [][(facade = "FixedVector" /\ last'.op = "insert_at") =>
          /\ last'.index > size =>
                /\ last'.ret = FALSE
                /\ size' = size
                /\ data' = data
          /\ (last'.index = size /\ size < capacity) =>
                /\ last'.ret = TRUE
                /\ size' = push(data, size, out, last'.item).size
                /\ Live(data', size')
                      = Live(push(data, size, out, last'.item).data, size')
                /\ Live(data', size') = Append(Live(data, size), last'.item)
    ]_vars

\* C10 witness: a successful insert_at at index == size on a FixedVector
\* that already held an element.
C10_Witness ==
    /\ facade = "FixedVector"
    /\ last.op = "insert_at"
    /\ last.ret = TRUE
    /\ size >= 2
    /\ last.index = size - 1

\* the calls that can change the collection
MutatingOps ==
    {"push", "pop", "push_atomic", "pop_atomic", "insert_at", "remove_at",
     "remove_first", "remove_all", "add", "remove"}

\* C11: a collection constructed with capacity 0, or whose allocation
\* failed, has is_valid() == false and capacity() == 0; while is_valid() is
\* false, size is 0, every push, pop, insert_at, remove_at, remove_first,
\* remove_all (and add, remove, try_get) returns false, and no call makes
\* is_valid() true.
C11_DegradedForever ==
    /\ [](\A requested \in 0..MaxCapacity, allocated \in BOOLEAN :
              (requested = 0 \/ ~allocated) =>
                  /\ ~LinearCollection_ctor(requested, allocated).valid
                  /\ LinearCollection_ctor(requested, allocated).capacity = 0)
    /\ [](~is_valid => (capacity = 0 /\ size = 0))
    /\ [][~is_valid =>
             /\ ~is_valid'
             /\ size' = 0
             /\ last'.op \in (MutatingOps \cup {"try_get"}) => last'.ret = FALSE
       ]_vars

\* C11 witness: an instance without storage has just refused an insert_at
\* at index 0.
C11_Witness ==
    /\ ~is_valid
    /\ capacity = 0
    /\ last.op = "insert_at"
    /\ last.index = 0
    /\ last.ret = FALSE

\* the elements a caller can observe, in order: the live range of a linear
\* collection, the logical contents of a ring buffer
Contents(d, n, h) ==
    IF facade = "FixedRingBuffer" THEN Logical(d, n, h) ELSE Live(d, n)

\* C12: a push, pop, insert_at, remove_at, remove_first or remove_all of the
\* engine (FixedMap add and remove, and the ring buffer's push and pop
\* included) that returns false leaves size, capacity and the sequence of
\* live elements exactly as they were before the call.
C12_FailedCallChangesNothing ==
    [][(last'.op \in MutatingOps /\ last'.ret = FALSE) =>
          /\ size' = size
          /\ capacity' = capacity
          /\ head' = head
          /\ tail' = tail
          /\ Contents(data', size', head') = Contents(data, size, head)
    ]_vars

\* C12 witness: a FixedVector holding two elements has just refused
\* remove_first of a value it does not hold.
C12_Witness ==
    /\ facade = "FixedVector"
    /\ last.op = "remove_first"
    /\ last.ret = FALSE
    /\ size >= 2
    /\ ~IsLive(data, size, last.item)

\* the calls that take an output slot
OutputOps == {"pop", "pop_atomic", "remove_at", "remove", "try_get"}

C14_PushPopRoundTrip ==
    /\ [][(facade = "FixedVector" /\ last'.op = "push" /\ size < capacity) =>
             LET r == pop(data', size', out')
             IN  /\ last'.ret = TRUE
                 /\ Live(data', size') = Append(Live(data, size), last'.item)
                 /\ r.ret = TRUE
                 /\ r.out = last'.item
                 /\ r.size = size
                 /\ Live(r.data, r.size) = Live(data, size)
       ]_vars
    /\ [][(/\ facade = "FixedVector"
            /\ last.op = "push"
            /\ last.ret = TRUE
            /\ last'.op = "pop") =>
             /\ last'.ret = TRUE
             /\ out' = last.item
             /\ size' = size - 1
             /\ Live(data', size') = SubSeq(Live(data, size), 1, size - 1)
       ]_vars

\* C14 witness: a pop has just emptied a FixedVector again and returned the
\* value 2, which push had stored in cell 0.
C14_Witness ==
    /\ facade = "FixedVector"
    /\ last.op = "pop"
    /\ last.ret = TRUE
    /\ size = 0
    /\ out = 2
    /\ data[0] = 2

\* C15: clear() on a linear collection or ring buffer sets size to 0 and
\* leaves capacity and validity unchanged (the ring buffer also returns head
\* and tail to 0); a clear() that follows a clear() changes nothing at all,
\* so two calls in a row leave the state one call leaves.
C15_ClearIdempotent ==
    [][last'.op = "clear" =>
          /\ size' = 0
          /\ capacity' = capacity
          /\ valid' = valid
          /\ data' = data
          /\ facade = "FixedRingBuffer" => (head' = 0 /\ tail' = 0)
          /\ last.op = "clear" => vars' = vars
    ]_vars

\* C15 witness: clear() has just emptied a linear collection that held at
\* least two elements; the cells keep their old values.
C15_Witness ==
    /\ facade \in LinearFacades
    /\ last.op = "clear"
    /\ valid
    /\ size = 0
    /\ capacity >= 2
    /\ data[1] # DefaultT(facade)

\* a step of the interrupt handler: the main context does not move
IsrStep == pc' = pc /\ lock' = lock

\* C16: while the main context runs push_atomic or pop_atomic on a
\* FixedVector or FixedRingBuffer, the interrupt handler takes no step
\* between the start and the end of the body of push or pop; so what the
\* body stores is push or pop applied to the state of that moment, and the
\* size, head, tail and contents are those of the handler's and the main
\* context's operations run one after the other.
C16_AtomicBodyNotInterrupted ==
    /\ [][IsrStep => pc \notin {"body", "store"}]_vars
    /\ [](pc = "store" =>
            pending = Body(cur.op, cur.item, data, size, head, tail, out))
    /\ [][(pc = "store" /\ pc' = "dtor") =>
             LET r == Body(cur.op, cur.item, data, size, head, tail, out)
             IN  /\ data' = r.data
                 /\ size' = r.size
                 /\ head' = r.head
                 /\ tail' = r.tail
                 /\ out' = r.out
                 /\ last'.ret = r.ret
       ]_vars

\* C16 witness: the handler ran inside a push_atomic call of the main
\* context (before noInterrupts()), and the body of that call has then
\* stored its item in a ring buffer that now holds two.
C16_Witness ==
    /\ facade = "FixedRingBuffer"
    /\ pc = "dtor"
    /\ cur.op = "push_atomic"
    /\ cur.interleaved
    /\ last.op = "push_atomic"
    /\ last.ret = TRUE
    /\ size = 2

\* C17: with the interrupt handler pushing and the main loop calling
\* pop_atomic on one FixedRingBuffer (push refusing when full), the values
\* of the successful pops are the values of the successful pushes in push
\* order, each once, the buffer holds the pushes not yet popped, and while
\* the main loop keeps popping the k-th pushed item is eventually popped.
C17_ProducerConsumerFifo ==
    /\ [](/\ Len(popped) <= Len(pushed)
          /\ popped = SubSeq(pushed, 1, Len(popped))
          /\ Logical(data, size, head)
                = SubSeq(pushed, Len(popped) + 1, Len(pushed)))
    /\ \A k \in 1..MaxIsrPushes :
          (Len(pushed) >= k) ~> (Len(popped) >= k)

\* C17 witness: the handler pushed while a pop_atomic call of the main loop
\* was under way, and that call has then returned the second of three
\* pushed items.
C17_Witness ==
    /\ pc = "dtor"
    /\ cur.op = "pop_atomic"
    /\ cur.interleaved
    /\ last.op = "pop_atomic"
    /\ last.ret = TRUE
    /\ Len(pushed) = 3
    /\ Len(popped) = 2
    /\ out = pushed[2]

\* a step that destroys the innermost live lock
LockDestroyed == Len(lock') < Len(lock)

\* some live lock has finished its constructor
LockHeld ==
    \/ Len(lock) = 2
    \/ Len(lock) = 1 /\ pc \notin {"outer_ctor", "ctor"}

\* C18: a ScopedInterruptLock keeps interrupts disabled for its whole
\* lifetime, and its destructor leaves the interrupt-enable flag as it was
\* when the lock was created: enabled if and only if it was enabled then;
\* so when push_atomic or pop_atomic returns the flag is what it was before
\* the call.
C18_LockRestoresState ==
    /\ [](LockHeld => irq = FALSE)
    /\ [][LockDestroyed => irq' = lock[Len(lock)].irq_before]_vars
    /\ [][(pc = "dtor" /\ pc' = "idle") =>
             irq' = lock[Len(lock)].irq_before]_vars

\* C19: in nested usage (a lock created while another lock is alive)
\* destroying the inner lock leaves interrupts disabled, and interrupts are
\* enabled again only by the destruction of the outermost lock, and only
\* if they were enabled before that lock was created.
C19_NestedLocksSafe ==
    /\ [][(Len(lock) = 2 /\ LockDestroyed) => irq' = FALSE]_vars
    /\ [][(lock # << >> /\ lock[1].nested /\ irq = FALSE /\ irq' = TRUE) =>
             /\ Len(lock) = 1
             /\ lock' = << >>
             /\ lock[1].irq_before = TRUE
       ]_vars

\* C20: move construction gives the new instance the source's buffer,
\* capacity, size, head and tail and leaves the source with null storage,
\* capacity 0 and size 0 (head and tail 0); afterwards the source and the
\* new instance never both own the backing array, and every mutating call
\* on the source returns false and leaves its size 0.
C20_MoveTransfersOwnership ==
    /\ [][(~moved.constructed /\ moved'.constructed) =>
             /\ moved' = Instance(valid, data, capacity, size, head, tail)
             /\ valid' = FALSE
             /\ data' = << >>
             /\ capacity' = 0
             /\ size' = 0
             /\ head' = 0
             /\ tail' = 0
       ]_vars
    /\ [](moved.constructed => ~(valid /\ moved.valid))
    /\ [][(moved.constructed /\ last'.op \in MutatingOps) =>
             /\ last'.ret = FALSE
             /\ size' = 0
             /\ valid' = FALSE
             /\ moved' = moved
       ]_vars

\* C20 witness: a ring buffer whose head had advanced was moved from with
\* two elements in it, and the moved-from buffer has just refused a push.
C20_Witness ==
    /\ facade = "FixedRingBuffer"
    /\ moved.constructed
    /\ moved.valid
    /\ moved.size = 2
    /\ moved.head > 0
    /\ last.op = "push"
    /\ last.ret = FALSE
    /\ ~valid

\* the collection as a caller observes it is the same before and after
\* the step
CollectionUnchanged ==
    /\ size' = size
    /\ capacity' = capacity
    /\ valid' = valid
    /\ head' = head
    /\ tail' = tail
    /\ data' = data

\* C21: find(item) returns the lowest index i < size whose live element
\* equals item, or size when no live element equals item, with Sequential
\* and with Ordered placement; contains(item) is true exactly when
\* find(item) != size; neither call changes the collection.
C21_FindLowestIndex ==
    /\ [][last'.op = "find" =>
             /\ CollectionUnchanged
             /\ last'.index \in 0..size
             /\ last'.index < size => Equals(data[last'.index], last'.item)
             /\ \A j \in 0..(size - 1) :
                    Equals(data[j], last'.item) => last'.index <= j
       ]_vars
    /\ [][last'.op = "contains" =>
             /\ CollectionUnchanged
             /\ last'.ret = (find(data, size, last'.item) # size)
             /\ last'.ret = (\E i \in 0..(size - 1) : Equals(data[i], last'.item))
       ]_vars

\* C21 witness: find on a FixedVector of three elements has returned index
\* 1 for an item that is also held at index 2.
C21_Witness ==
    /\ facade = "FixedVector"
    /\ last.op = "find"
    /\ size = 3
    /\ last.index = 1
    /\ Equals(data[2], last.item)

\* the sequence s without its k-th element (k counted from 1)
Without(s, k) == SubSeq(s, 1, k - 1) \o SubSeq(s, k + 1, Len(s))

\* C22: remove_first(item) (erase on the set facades) returns false and
\* changes nothing when no live element equals item; otherwise it removes
\* exactly the occurrence at index find(item), decrements size by one and
\* keeps every other live element, later elements equal to item included,
\* in its relative order.
C22_RemoveFirstOccurrence ==
    [][last'.op = "remove_first" =>
          LET index == find(data, size, last'.item)
          IN  IF \A i \in 0..(size - 1) : ~Equals(data[i], last'.item)
              THEN /\ last'.ret = FALSE
                   /\ size' = size
                   /\ Live(data', size') = Live(data, size)
              ELSE /\ last'.ret = TRUE
                   /\ index < size
                   /\ size' = size - 1
                   /\ Live(data', size') = Without(Live(data, size), index + 1)
    ]_vars

\* C22 witness: remove_first on a FixedVector has removed the first of two
\* occurrences of the item and left the later one behind another element.
C22_Witness ==
    /\ facade = "FixedVector"
    /\ last.op = "remove_first"
    /\ last.ret = TRUE
    /\ size = 2
    /\ data[0] # last.item
    /\ data[1] = last.item

\* C23: remove_at(index, out) returns false and changes nothing when
\* index >= size (index == size and any index on an empty collection
\* included); otherwise it sets out to the element at index, decrements
\* size by one and moves every element after index one position left in
\* the same relative order, so that remove_at(0, out) on a FixedVector
\* takes the oldest element.
C23_RemoveAtShiftsLeft ==
    [][last'.op = "remove_at" =>
          IF last'.index >= size
          THEN /\ last'.ret = FALSE
               /\ size' = size
               /\ out' = out
               /\ Live(data', size') = Live(data, size)
          ELSE /\ last'.ret = TRUE
               /\ out' = data[last'.index]
               /\ size' = size - 1
               /\ Live(data', size')
                     = Without(Live(data, size), last'.index + 1)
               /\ last'.index = 0 =>
                     /\ out' = Head(Live(data, size))
                     /\ Live(data', size') = Tail(Live(data, size))
    ]_vars

\* C23 witness: remove_at(0, out) on a FixedVector holding three elements,
\* not all equal, has returned the first one and left the other two.
C23_Witness ==
    /\ facade = "FixedVector"
    /\ last.op = "remove_at"
    /\ last.index = 0
    /\ last.ret = TRUE
    /\ size = 2
    /\ out # data[0]
    /\ data[0] # data[1]

\* C24: FixedMap remove(key, out) with the key present returns true, sets
\* out to the value stored under the key, removes that pair, decrements
\* size by one and leaves every other pair as it was; with the key absent
\* it returns false and changes nothing.  try_get(key, out) never changes
\* the map and returns true, with out the stored value, exactly when the
\* key is present.
C24_MapRemoveAndTryGet ==
    /\ [][last'.op = "remove" =>
             LET key == last'.item.key
                 OtherKey(p) == p.key # key
             IN  IF \E i \in 0..(size - 1) : data[i].key = key
                 THEN /\ last'.ret = TRUE
                      /\ Stored(data, size, key) = {out'}
                      /\ size' = size - 1
                      /\ Live(data', size') = SelectSeq(Live(data, size), OtherKey)
                 ELSE /\ last'.ret = FALSE
                      /\ size' = size
                      /\ out' = out
                      /\ Live(data', size') = Live(data, size)
       ]_vars
    /\ [][last'.op = "try_get" =>
             LET key == last'.item.key
             IN  /\ CollectionUnchanged
                 /\ last'.ret = (\E i \in 0..(size - 1) : data[i].key = key)
                 /\ last'.ret = TRUE => Stored(data, size, key) = {out'}
                 /\ last'.ret = FALSE => out' = out
       ]_vars

\* C24 witness: remove on a FixedMap has taken the pair with the lower of
\* two keys and returned its value; the pair left holds another value.
C24_Witness ==
    /\ facade = "FixedMap"
    /\ last.op = "remove"
    /\ last.ret = TRUE
    /\ size = 1
    /\ last.item.key < data[0].key
    /\ out # 0
    /\ out # data[0].value

\* the last n elements of the sequence s
LastN(s, n) == SubSeq(s, Len(s) - n + 1, Len(s))

\* C25: forward iteration from begin() to end() visits exactly size()
\* elements, the live cells 0..size-1 in increasing index order and nothing
\* else: insertion order for FixedVector and FixedSet (a successful push
\* adds its item at the end of what the loop visits), comparator order for
\* the ordered facades, oldest to newest for FixedRingBuffer; on an empty
\* collection begin() == end() and nothing is visited.
C25_IterationVisitsLiveCells ==
    /\ [][last'.op = "range_for" =>
             LET visited == last'.item
             IN  /\ CollectionUnchanged
                 /\ Len(visited) = size
                 /\ last'.index = size
                 /\ visited = Contents(data, size, head)
                 /\ facade \in OrderedFacades =>
                       \A k \in 1..(size - 1) : ~order(visited[k + 1], visited[k])
                 /\ facade = "FixedRingBuffer" => visited = LastN(pushed, size)
                 /\ size = 0 =>
                       (~Iterator_not_equal(begin, end(size)) /\ visited = << >>)
       ]_vars
    /\ [][(/\ facade \in {"FixedVector", "FixedSet"}
            /\ last'.op = "push"
            /\ last'.ret = TRUE) =>
             range_for(data', size', head', begin, << >>)
                = Append(range_for(data, size, head, begin, << >>), last'.item)
       ]_vars

\* C25 witness: a range-for over a FixedRingBuffer whose contents wrap
\* around the end of the array has visited two different values, and stale
\* cells exist that it did not visit.
C25_Witness ==
    /\ facade = "FixedRingBuffer"
    /\ last.op = "range_for"
    /\ last.index = 2
    /\ size = 2
    /\ capacity = 3
    /\ head = 2
    /\ last.item[1] # last.item[2]

\* C26: on a FixedRingBuffer with size > 0, at(i) and operator [](i) for
\* i < size return the cell at physical index (head + i) mod capacity,
\* which is the (i+1)-th oldest element still in the buffer; front() is
\* at(0), the oldest, and back() is at(size - 1), the newest, also after
\* head or tail has wrapped around the end of the array.
C26_RingLogicalIndexing ==
    /\ [][last'.op = "at" =>
             /\ CollectionUnchanged
             /\ last'.index < size
             /\ last'.item = data[(head + last'.index) % capacity]
             /\ last'.item = LastN(pushed, size)[last'.index + 1]
       ]_vars
    /\ [][last'.op = "front" =>
             /\ CollectionUnchanged
             /\ last'.item = at(data, head, 0)
             /\ last'.item = Head(LastN(pushed, size))
       ]_vars
    /\ [][last'.op = "back" =>
             /\ CollectionUnchanged
             /\ last'.item = at(data, head, size - 1)
             /\ last'.item = pushed[Len(pushed)]
       ]_vars

\* C26 witness: back() on a buffer of capacity 3 whose head is the last
\* cell of the array and whose newest element sits in cell 0, differing
\* from the oldest.
C26_Witness ==
    /\ facade = "FixedRingBuffer"
    /\ last.op = "back"
    /\ capacity = 3
    /\ head = 2
    /\ size = 2
    /\ last.item = data[0]
    /\ last.item # data[2]

\* C27: clear() on a FixedRingBuffer sets size, head and tail to 0 and
\* keeps capacity and validity; afterwards the buffer behaves like a
\* freshly constructed one: a pop right after it fails, and every later
\* successful pop returns the oldest value not yet popped among those
\* pushed after the clear (the record of pushes starts again at clear), so
\* no value from before the clear comes back.
C27_RingClearResets ==
    /\ [][(facade = "FixedRingBuffer" /\ last'.op = "clear") =>
             /\ size' = 0
             /\ head' = 0
             /\ tail' = 0
             /\ capacity' = capacity
             /\ valid' = valid
             /\ pushed' = << >>
       ]_vars
    /\ [][(/\ facade = "FixedRingBuffer"
            /\ last.op \in {"clear", "construct"}
            /\ last'.op \in {"pop", "pop_atomic"}) =>
             /\ last'.ret = FALSE
             /\ out' = out
       ]_vars
    /\ [][(/\ facade = "FixedRingBuffer"
            /\ last'.op \in {"pop", "pop_atomic"}
            /\ last'.ret = TRUE) =>
             /\ size <= Len(pushed)
             /\ out' = Head(LastN(pushed, size))
             /\ mode = "REJECT" => out' = pushed[Len(popped) + 1]
       ]_vars
    /\ [][(/\ facade = "FixedRingBuffer"
            /\ last.op \in {"clear", "construct"}
            /\ last'.op \in {"push", "push_atomic"}) =>
             /\ last'.ret = is_valid
             /\ is_valid => (head' = 0 /\ tail' = next(0) /\ size' = 1
                             /\ data'[0] = last'.item)
       ]_vars

\* C27 witness: the first pop since a clear has returned the one value
\* pushed since then, while the next cell still holds a different value
\* stored before the clear.
C27_Witness ==
    /\ facade = "FixedRingBuffer"
    /\ last.op = "pop"
    /\ last.ret = TRUE
    /\ Len(pushed) = 1
    /\ popped = <<out>>
    /\ head = 1
    /\ data[1] # 0
    /\ data[1] # out

\* C28: pop on an engine with Ordered placement removes and outputs the
\* live element at index size - 1, which is the maximum under the
\* comparator (no live element e satisfies order(out, e)) and not the most
\* recently inserted one: after a successful push of an item that some live
\* element follows in the order, pop yields that other element.  The
\* remaining elements stay sorted and otherwise unchanged and size
\* decreases by one.
C28_OrderedPopTakesMaximum ==
    /\ [][(IS_ORDERED /\ last'.op = "pop" /\ size > 0) =>
             /\ last'.ret = TRUE
             /\ out' = data[size - 1]
             /\ \A i \in 0..(size - 1) : ~order(out', data[i])
             /\ size' = size - 1
             /\ Live(data', size') = SubSeq(Live(data, size), 1, size - 1)
             /\ \A i \in 0..(size' - 2) : ~order(data'[i + 1], data'[i])
       ]_vars
    /\ [][(/\ IS_ORDERED
            /\ last.op = "push"
            /\ last.ret = TRUE
            /\ last'.op = "pop"
            /\ \E i \in 0..(size - 1) : order(last.item, data[i])) =>
             /\ last'.ret = TRUE
             /\ ~Equals(out', last.item)
             /\ order(last.item, out')
       ]_vars

\* C28 witness: pop on an ascending ordered engine that allows duplicates
\* has returned 2 and left two elements 1 behind.
C28_Witness ==
    /\ facade = "FixedOrderedVector"
    /\ sorting = "Ascending"
    /\ last.op = "pop"
    /\ last.ret = TRUE
    /\ out = 2
    /\ size = 2
    /\ data[0] = 1
    /\ data[1] = 1

\* the number of live elements equal to item
Occurrences(d, n, item) == Cardinality({i \in 0..(n - 1) : Equals(d[i], item)})

\* the live elements that differ from item, in their order
Survivors(d, n, item) ==
    LET Differs(e) == ~Equals(e, item)
    IN  SelectSeq(Live(d, n), Differs)

\* C29: remove_all(item) on a collection with Ordered placement
\* (FixedOrderedVector) removes every live element equal to item, moves the
\* elements after that contiguous range left by the removed count so that
\* the survivors keep their order and values, decreases size by the removed
\* count, and returns true iff the count is at least 1.
C29_OrderedRemoveAll ==
    [][(facade = "FixedOrderedVector" /\ last'.op = "remove_all") =>
          /\ size' = size - Occurrences(data, size, last'.item)
          /\ last'.ret = (Occurrences(data, size, last'.item) >= 1)
          /\ Live(data', size') = Survivors(data, size, last'.item)
          /\ \A i \in 0..(size' - 1) : ~Equals(data'[i], last'.item)
    ]_vars

\* C30: remove_all(item) on a collection with Sequential placement
\* (FixedVector) removes every live element equal to item wherever it sits,
\* keeps the remaining elements in their original relative order, decreases
\* size by exactly the number of removed elements, and returns true iff at
\* least one element was removed; when none matches, size and contents are
\* unchanged.
C30_SequentialRemoveAll ==
    [][(facade = "FixedVector" /\ last'.op = "remove_all") =>
          /\ size' = size - Occurrences(data, size, last'.item)
          /\ last'.ret = (Occurrences(data, size, last'.item) >= 1)
          /\ Live(data', size') = Survivors(data, size, last'.item)
          /\ \A i \in 0..(size' - 1) : ~Equals(data'[i], last'.item)
          /\ Occurrences(data, size, last'.item) = 0 =>
                (size' = size /\ Live(data', size') = Live(data, size))
    ]_vars

\* C30 witness: a successful remove_all on a FixedVector of capacity 3 has
\* left one element, which differs from the item, while the last cell of
\* the array, now outside the live range, still holds the item.
C30_Witness ==
    /\ facade = "FixedVector"
    /\ last.op = "remove_all"
    /\ last.ret = TRUE
    /\ capacity = 3
    /\ size = 1
    /\ data[0] # last.item
    /\ data[2] = last.item

\* C31: for Ordered placement with Forbid duplication, the single binary
\* search of find_insert_position gives the same decision and index as the
\* generic path: on every sorted live range and every item its index
\* equals get_push_index(item) and its found flag is true exactly when some
\* live element equals item, so push through it has the outcome of push
\* through get_push_index and the duplication policy's presence check.
C31_SingleSearchMatchesGenericPath ==
    IS_ORDERED =>
        \A item \in ItemsOf(facade) :
            LET res == Ordered_find_insert_position(data, size, item)
                index == get_push_index(data, size, item)
                can_add == ForbidDuplication_allows(data, size, item)
            IN  /\ res.index = index
                /\ res.found = (\E i \in 0..(size - 1) : Equals(data[i], item))
                /\ res.found = ~can_add
                /\ (~ALLOWS_DUPLICATES /\ is_valid /\ ~is_full(size)) =>
                      push(data, size, out, item)
                         = (IF can_add
                            THEN Outcome(insert(data, size, index, item),
                                         SizeT(size + 1), TRUE, out)
                            ELSE Outcome(data, size, FALSE, out))

\* C31 witness: a FixedOrderedSet that holds two elements and has room for
\* more has just refused a push of the element it holds at index 1.
C31_Witness ==
    /\ facade = "FixedOrderedSet"
    /\ last.op = "push"
    /\ last.ret = FALSE
    /\ size = 2
    /\ capacity = 3
    /\ data[1] = last.item

\* C32: on a sorted live range get_push_index(item) returns the lower
\* bound, the least index i in 0..size such that order(data[i], item) is
\* false (size when there is none): every element before it is strictly
\* ahead of item under the comparator, no element equal to item sits before
\* it, and an item just pushed sits at the lower bound of its own value,
\* before the elements equal to it.
C32_PushIndexIsLowerBound ==
    IS_ORDERED =>
        /\ \A item \in ItemsOf(facade) :
              LET index == Ordered_get_push_index(data, size, item)
              IN  /\ index \in 0..size
                  /\ index < size => ~order(data[index], item)
                  /\ \A j \in 0..(index - 1) : order(data[j], item)
                  /\ \A j \in 0..(size - 1) :
                        Equals(data[j], item) => index <= j
        /\ (last.op = "push" /\ last.ret = TRUE) =>
              LET index == Ordered_get_push_index(data, size, last.item)
              IN  /\ index < size
                  /\ data[index] = last.item
                  /\ \A j \in 0..(index - 1) : ~Equals(data[j], last.item)

\* C32 witness: a FixedOrderedVector in descending order holds a lower
\* element after two equal ones, and a push has just put its item at index
\* 1, before the two elements equal to it and after a higher one.
C32_Witness ==
    /\ facade = "FixedOrderedVector"
    /\ sorting = "Descending"
    /\ last.op = "push"
    /\ last.ret = TRUE
    /\ size = 3
    /\ data[0] = 2
    /\ data[1] = 1
    /\ data[2] = 1
    /\ last.item = 1

\* C33: a successful insert_at(item, index) has index <= size, places item
\* at index, moves each element formerly at position j >= index to
\* position j + 1, leaves the elements before index unchanged and increases
\* size by one; on FixedSet it is refused (returns false, no change) when
\* an element equal to item is already live.
C33_InsertAtShiftsRight ==
    [][last'.op = "insert_at" =>
          /\ last'.ret = TRUE =>
                /\ last'.index <= size
                /\ size' = size + 1
                /\ data'[last'.index] = last'.item
                /\ \A j \in 0..(size - 1) :
                      IF j >= last'.index THEN data'[j + 1] = data[j]
                      ELSE data'[j] = data[j]
          /\ (/\ facade = "FixedSet"
              /\ \E i \in 0..(size - 1) : Equals(data[i], last'.item)) =>
                /\ last'.ret = FALSE
                /\ size' = size
                /\ Live(data', size') = Live(data, size)
          /\ (/\ is_valid
              /\ ~is_full(size)
              /\ last'.index <= size
              /\ \/ facade = "FixedVector"
                 \/ \A i \in 0..(size - 1) : ~Equals(data[i], last'.item)) =>
                last'.ret = TRUE
    ]_vars

\* C33 witness: insert_at(item, 1) on a FixedVector holding two elements
\* has put the item between them; the three elements are not all equal.
C33_Witness ==
    /\ facade = "FixedVector"
    /\ last.op = "insert_at"
    /\ last.ret = TRUE
    /\ last.index = 1
    /\ size = 3
    /\ data[1] = last.item
    /\ data[0] # data[1]
    /\ data[2] # data[1]

Shrinks(trace) ==
    \A k \in 1..(Len(trace) - 1) :
        trace[k + 1].right - trace[k + 1].left < trace[k].right - trace[k].left

\* the loop variables when the loop is left
Final(trace) == trace[Len(trace)]

\* every engine call a caller can make on the state returns a status
EveryCallReturns ==
    /\ pop(data, size, out).ret \in BOOLEAN
    /\ \A item \in ItemsOf(facade) :
          /\ push(data, size, out, item).ret \in BOOLEAN
          /\ remove_first(data, size, out, item).ret \in BOOLEAN
          /\ remove_all(data, size, out, item).ret \in BOOLEAN
          /\ \A index \in 0..(size + 1) :
                insert_at(data, size, out, item, index).ret \in BOOLEAN
    /\ \A index \in 0..(size + 1) :
          remove_at(data, size, out, index).ret \in BOOLEAN

\* C35: every operation terminates and returns a status: the binary
\* searches of get_push_index and of the upper-bound loop in remove_all
\* strictly shrink the interval right - left on each iteration and stop
\* with 0 <= left <= size, and the shift loops of insert, remove and
\* remove_all run at most size iterations, for every size in 0..capacity.
C35_LoopsTerminate ==
    facade \in LinearFacades =>
        /\ EveryCallReturns
        /\ IS_ORDERED =>
              \A item \in ItemsOf(facade) :
                  LET lower == lower_bound_trace(data, item, 0, size, << >>)
                      found == Ordered_find_index(data, size, item)
                      upper == upper_bound_trace(data, item, found, size, << >>)
                  IN  /\ Shrinks(lower)
                      /\ Len(lower) - 1 <= size
                      /\ Final(lower).left = Final(lower).right
                      /\ Final(lower).left \in 0..size
                      /\ Final(lower).left = Ordered_get_push_index(data, size, item)
                      /\ Shrinks(upper)
                      /\ Len(upper) - 1 <= size
                      /\ Final(upper).left = Final(upper).right
                      /\ Final(upper).left \in found..size
                      /\ Final(upper).left
                            = upper_bound_search(data, item, found, size)
                      /\ Len(Ordered_close_gap_trace(Final(upper).left, size,
                                                     << >>)) <= size
        /\ ~is_full(size) =>
              \A target_index \in 0..size :
                  Len(insert_trace(size, target_index, << >>)) - 1
                     = size - target_index
        /\ \A target_index \in 0..(size - 1) :
              Len(remove_trace(target_index, SizeT(size - 1), << >>))
                 = size - 1 - target_index
        /\ ~IS_ORDERED =>
              \A item \in ItemsOf(facade) :
                  /\ Len(Sequential_compact_trace(data, size, item, 0, 0, << >>))
                        = size
                  /\ Len(Sequential_find_trace(data, size, item, 0, << >>))
                        <= size

\* C35 witness: a FixedOrderedVector holds three elements and the binary
\* search for the item just pushed takes two iterations.
C35_Witness ==
    /\ facade = "FixedOrderedVector"
    /\ last.op = "push"
    /\ last.ret = TRUE
    /\ size = 3
    /\ Len(lower_bound_trace(data, last.item, 0, size, << >>)) = 3

\* C36: in every reachable state of a valid FixedRingBuffer head < capacity,
\* tail < capacity and tail == (head + size) mod capacity; in particular
\* head == tail exactly when the buffer is empty or full.
C36_RingIndexesConsistent ==
    (facade = "FixedRingBuffer" /\ is_valid) =>
        /\ head \in 0..(capacity - 1)
        /\ tail \in 0..(capacity - 1)
        /\ tail = (head + size) % capacity
        /\ (head = tail) = (size = 0 \/ size = capacity)

\* C36 witness: a push has filled a buffer of capacity 3 whose head is not
\* cell 0, so head and tail meet in the middle of the array.
C36_Witness ==
    /\ facade = "FixedRingBuffer"
    /\ last.op = "push"
    /\ last.ret = TRUE
    /\ capacity = 3
    /\ size = 3
    /\ head = 1
    /\ tail = 1

\* the indexes of the cells of the backing array
Cells == 0..(capacity - 1)

\* C37: no operation of the engine (push, pop, insert_at, remove_at,
\* remove_first, remove_all, find) and no push or pop of the ring buffer
\* reads or writes a buffer cell at an index >= capacity: the right shift
\* of insert writes data[size] only when size < capacity, and searches and
\* left shifts touch only indexes below size.
C37_AccessesWithinCapacity ==
    /\ facade \in LinearFacades =>
          /\ pop_touched(data, size) \subseteq 0..(size - 1)
          /\ \A index \in 0..(size + 1) :
                remove_at_touched(data, size, index) \subseteq 0..(size - 1)
          /\ \A item \in ItemsOf(facade) :
                /\ find_touched(data, size, item) \subseteq 0..(size - 1)
                /\ remove_first_touched(data, size, item) \subseteq 0..(size - 1)
                /\ remove_all_touched(data, size, item) \subseteq 0..(size - 1)
                /\ push_touched(data, size, item) \subseteq 0..size
                /\ push_touched(data, size, item) \subseteq Cells
                /\ size \in push_touched(data, size, item) => size < capacity
                /\ \A index \in 0..(size + 1) :
                      /\ insert_at_touched(data, size, item, index) \subseteq 0..size
                      /\ insert_at_touched(data, size, item, index) \subseteq Cells
                      /\ size \in insert_at_touched(data, size, item, index)
                            => size < capacity
    /\ facade = "FixedRingBuffer" =>
          /\ ring_push_touched(size, tail) \subseteq Cells
          /\ ring_pop_touched(size, head) \subseteq Cells

\* C37 witness: a FixedVector is full after a push that wrote its last
\* cell, and a further push touches no cell at all.
C37_Witness ==
    /\ facade = "FixedVector"
    /\ last.op = "push"
    /\ last.ret = TRUE
    /\ capacity = 3
    /\ size = capacity
    /\ \A item \in ItemsOf(facade) : push_touched(data, size, item) = {}
    /\ pop_touched(data, size) = {2}

\* C38: the unsigned size counter never wraps below zero: the policy
\* functions remove and get_pop_index, which compute size - 1, are reached
\* from pop, remove_at and remove_first only when size >= 1 (these calls
\* return true only then, and leave size - 1; otherwise they leave size),
\* and remove_all subtracts a count that is never larger than size.
C38_SizeNeverWraps ==
    /\ size \in 0..capacity
    /\ facade \in LinearFacades =>
          /\ LET r == pop(data, size, out)
             IN  /\ r.ret = (is_valid /\ size >= 1)
                 /\ r.ret => get_pop_index(data, size) = size - 1
                 /\ r.size = (IF r.ret THEN size - 1 ELSE size)
          /\ \A index \in 0..(size + 1) :
                LET r == remove_at(data, size, out, index)
                IN  /\ r.ret => size >= 1
                    /\ r.size = (IF r.ret THEN size - 1 ELSE size)
          /\ \A item \in ItemsOf(facade) :
                /\ LET r == remove_first(data, size, out, item)
                   IN  /\ r.ret => size >= 1
                       /\ r.size = (IF r.ret THEN size - 1 ELSE size)
                /\ LET r == remove_all(data, size, out, item)
                       count == policy_remove_all(data, size, item).count
                   IN  /\ count \in 0..size
                       /\ r.ret => size >= 1
                       /\ r.size = (IF r.ret THEN size - count ELSE size)
                       /\ r.size \in 0..size
    /\ facade = "FixedRingBuffer" =>
          LET r == ring_pop(data, size, head, tail, out)
          IN  /\ r.ret => size >= 1
              /\ r.size = (IF r.ret THEN size - 1 ELSE size)

\* C38 witness: a pop has taken the only element of a valid FixedVector,
\* and the pop that would follow is refused with the size left at 0.
C38_Witness ==
    /\ facade = "FixedVector"
    /\ is_valid
    /\ last.op = "pop"
    /\ last.ret = TRUE
    /\ size = 0
    /\ pop(data, size, out).ret = FALSE
    /\ pop(data, size, out).size = 0

\* the instances whose _data holds the array x
Owners(x) ==
    {who \in {"A", "B"} :
        x = (IF who = "A" THEN moved.this.ptr ELSE SourcePtr)}

\* C39: move-assigning collection B into a different collection A leaves A
\* owning B's former array with B's capacity and size, leaves B with null
\* storage, capacity 0 and size 0, and releases the array A owned before;
\* after the assignment every allocated array has exactly one owner (none
\* is leaked and none is shared), for the linear collection engine and for
\* the ring buffer.
C39_MoveAssignOwnership ==
    /\ [][last'.op = "move_assign" =>
             /\ moved'.this.ptr = SourcePtr
             /\ moved'.this.data = data
             /\ moved'.this.capacity = capacity
             /\ moved'.this.size = size
             /\ valid' = FALSE
             /\ capacity' = 0
             /\ size' = 0
             /\ moved.this.ptr \notin moved'.heap
       ]_vars
    /\ []((moved.constructed /\ moved.assigned) =>
             \A x \in moved.heap : Cardinality(Owners(x)) = 1)

====
